---- MODULE Spec2Model ----
(***************************************************************************)
(* State-machine model of the pharmacy scrapers of this repository:        *)
(*   src/scrapper.py                                 (thread-pool scrapers) *)
(*   src/extracao_farmaponte/extracao_farmaponte.py  (asyncio scraper)      *)
(*   src/extracao_farmaponte/enhanced_scraper.py     (enhanced asyncio)     *)
(* Each component has its own specification (SpecDetails, SpecFetch, ...)   *)
(* over the shared variable tuple `vars`; a specification leaves the       *)
(* variables of the other components at their initial value.               *)
(***************************************************************************)
EXTENDS Integers, Sequences, FiniteSets, Bags, TLC

VARIABLES
    \* scrape_product_details
    d_impl,         \* "original" | "enhanced": the scraper class in use
    product_urls,   \* the argument: a list of product URLs
    d_task,         \* position -> outcome of its fetch_page task, or pending
    d_completion,   \* positions in the order their tasks completed
    d_results,      \* what asyncio.gather returned
    products_data,  \* the list being built
    d_pc,           \* "fetching" | "processing" | "done"
    \* the fetchers: baixar_url (both thread-pool scrapers) and fetch_page
    f_impl,              \* which fetcher the callers share
    url_cache,           \* FarmaponteScraper.url_cache: URL -> response
    consecutive_errors,  \* FarmaponteScraper.consecutive_errors
    semaphore,           \* fetch_page: holders of self.semaphore
    f_call,              \* caller -> the locals of its current call
    f_calls_left,        \* calls the callers may still start
    f_first200,          \* URL -> the first status-200 response a call returned
    \* scrape() of the thread-pool scrapers
    s_impl,              \* "farmaponte" | "veracruz"
    s_divs,              \* texts of the pagination divs of the first page
    s_max_paginas,       \* the max_paginas argument, 0 for None
    s_pc,                \* where scrape() is
    s_error,             \* the exception that escaped scrape(), "" if none
    total_paginas,       \* what achar_total_paginas returned
    s_page,              \* page -> the state of its processar_pagina task
    lista_de_produtos,   \* the records aggregated so far
    \* the link extractors, applied to the fetched pages of a category
    l_impl,              \* "original" | "enhanced"
    pages_html,          \* the fetched pages: each the set of its anchors
    l_k,                 \* index of the page being extracted
    l_method,            \* the next extraction method to run on it
    product_links,       \* the set the extractor is building for the page
    l_returned,          \* what the extractor returned for each page so far
    all_product_links,   \* the set of the category
    \* scrape_all_categories / scrape_all_categories_enhanced
    c_impl,              \* "original" | "enhanced"
    categories,          \* the categories to scrape (categories_to_test)
    c_pc,                \* where the run is
    c_i,                 \* index of the category at hand
    c_info,              \* what get_category_info returned, per category
    discovered_categories, \* the valid categories of the enhanced scraper
    c_task,              \* per category, the state of each page fetch
    c_pages_html,        \* the pages fetched for the category at hand
    c_k,                 \* index of the page being extracted
    c_links,             \* all_product_links of the category at hand
    category_results,    \* category -> set of product links
    c_report,            \* category -> the validation printed for it
    \* the validation of a category by scrape_all_categories_enhanced
    expected_products,  \* info["products"] of the category
    actual_products,  \* len(product_links)
    v_pc,  \* "scraped" | "stored" | "validated"
    v_stored,  \* size of the set stored in category_results, -1 before
    v_flag, \* "low" | "good": the line printed, "" before
    \* main() of src/main.py
    m_pc,  \* where main() is
    m_table,  \* index of the table queried next
    m_cur,  \* the phase at hand: "bq" | "scraping"
    df_bq,  \* records of df_bq, -1 for None
    df_scraping,  \* records of df_scraping, -1 for None
    bigquery_success,
    scraping_success,
    m_phase,  \* how each phase ended: the line it logged
    m_exc,  \* the exception on its way out of main(), "" if none
    m_local,  \* the local files
    m_s3,  \* the keys in the bucket
    m_upload,  \* what upload_file_to_s3 returned in each phase
    m_lambda, \* calls of invoke_stop_lambda
    \* the worker pools of scrape()
    pool_impl,  \* "farmaponte" | "veracruz"
    page_queue,  \* pages waiting in the queue of the page pool
    page_workers, \* bag of the states of the page workers at work
    \* the prices of a record of processar_produto / processar_produto_rapido
    p_impl,  \* "farmaponte" | "veracruz"
    preco,  \* text of p.unit-price, "" when absent
    precodesconto,  \* text of the discount price, "" when absent
    precopix,  \* text of the pix price, "" when absent
    p_pc,  \* "start" | "returned"
    p_record, \* the price fields of the record returned
    \* the top-level runs: main, main_enhanced, run_full_scraper
    run_impl,  \* "main" | "main_enhanced" | "run_full_scraper"
    run_pc,  \* where the run is
    run_cat,  \* categories scrape_all_categories has finished
    run_links,  \* links in the category_results of scrape_all_categories
    run_results,  \* links in the category_results of the run
    links_file,  \* links in the manifest written, NoFile before
    run_todo,  \* length of product_urls_list
    run_products,  \* records in the products_data of scrape_product_details
    data_file,  \* records in the data files written, NoFile before
    run_interrupt,  \* how the interrupt reached the run, "" if none did
    run_returned, \* what the run returned or raised
    \* the waits of the fetchers
    t_impl,  \* which fetcher runs
    t_threads,  \* the number of threads calling it
    t_retries,  \* tentativas / retries
    delay_between_requests,  \* self.delay_between_requests
    now,  \* time.time()
    last_request_time,  \* self.last_request_time
    t_consecutive_errors,  \* self.consecutive_errors
    request_lock,  \* the thread holding self.request_lock, 0 when free
    t_url_cache,  \* the keys of self.url_cache
    t_call,  \* each thread's call
    t_calls_left,  \* calls still to be made
    t_obs  \* failed attempts since the last 200, and the latest request starts

fetchVars == <<f_impl, url_cache, consecutive_errors, semaphore, f_call,
               f_calls_left, f_first200>>

detailVars == <<d_impl, product_urls, d_task, d_completion, d_results,
                products_data, d_pc>>

scrapeVars == <<s_impl, s_divs, s_max_paginas, s_pc, s_error, total_paginas,
                s_page, lista_de_produtos>>

linkVars == <<l_impl, pages_html, l_k, l_method, product_links, l_returned,
              all_product_links>>

catalogVars == <<c_impl, categories, c_pc, c_i, c_info, discovered_categories,
                 c_task, c_pages_html, c_k, c_links, category_results, c_report>>

validationVars == <<expected_products, actual_products, v_pc, v_stored, v_flag>>

mainVars == <<m_pc, m_table, m_cur, df_bq, df_scraping, bigquery_success,
              scraping_success, m_phase, m_exc, m_local, m_s3, m_upload, m_lambda>>

poolsVars == <<pool_impl, page_queue, page_workers>>

pricesVars == <<p_impl, preco, precodesconto, precopix, p_pc, p_record>>

runVars == <<run_impl, run_pc, run_cat, run_links, run_results, links_file,
             run_todo, run_products, data_file, run_interrupt, run_returned>>

timedVars == <<t_impl, t_threads, t_retries, delay_between_requests, now,
               last_request_time, t_consecutive_errors, request_lock, t_url_cache,
               t_call, t_calls_left, t_obs>>

vars == <<detailVars, fetchVars, scrapeVars, linkVars, catalogVars,
          validationVars, mainVars, poolsVars, pricesVars, runVars, timedVars>>

\* what the steps of one component leave alone
notDetailVars == <<fetchVars, scrapeVars, linkVars, catalogVars, validationVars,
                   mainVars, poolsVars, pricesVars, runVars, timedVars>>
notFetchVars == <<detailVars, scrapeVars, linkVars, catalogVars, validationVars,
                  mainVars, poolsVars, pricesVars, runVars, timedVars>>
notScrapeVars == <<detailVars, fetchVars, linkVars, catalogVars, validationVars,
                   mainVars, poolsVars, pricesVars, runVars, timedVars>>
notLinkVars == <<detailVars, fetchVars, scrapeVars, catalogVars, validationVars,
                 mainVars, poolsVars, pricesVars, runVars, timedVars>>
notCatalogVars == <<detailVars, fetchVars, scrapeVars, linkVars, validationVars,
                    mainVars, poolsVars, pricesVars, runVars, timedVars>>
notValidationVars == <<detailVars, fetchVars, scrapeVars, linkVars, catalogVars, mainVars,
                       poolsVars, pricesVars, runVars, timedVars>>
notMainVars == <<detailVars, fetchVars, scrapeVars, linkVars, catalogVars,
                 validationVars, poolsVars, pricesVars, runVars, timedVars>>
notPoolsVars == <<detailVars, fetchVars, scrapeVars, linkVars, catalogVars,
                  validationVars, mainVars, pricesVars, runVars, timedVars>>
notPricesVars == <<detailVars, fetchVars, scrapeVars, linkVars, catalogVars,
                   validationVars, mainVars, poolsVars, runVars, timedVars>>
notRunVars == <<detailVars, fetchVars, scrapeVars, linkVars, catalogVars,
                validationVars, mainVars, poolsVars, pricesVars, timedVars>>
notTimedVars == <<detailVars, fetchVars, scrapeVars, linkVars, catalogVars,
                  validationVars, mainVars, poolsVars, pricesVars, runVars>>

(***************************************************************************)
(* Python str helpers, computed on the characters of the string.           *)
(***************************************************************************)
StartsWith(s, pre) ==
    Len(pre) <= Len(s) /\ SubSeq(s, 1, Len(pre)) = pre

EndsWith(s, suf) ==
    Len(suf) <= Len(s) /\ SubSeq(s, Len(s) - Len(suf) + 1, Len(s)) = suf

\* positions at which `sub` occurs in `s`
Occurrences(s, sub) ==
    {i \in 1..(Len(s) - Len(sub) + 1) : SubSeq(s, i, i + Len(sub) - 1) = sub}

Contains(s, sub) == Occurrences(s, sub) # {}

DigitChars == <<"0", "1", "2", "3", "4", "5", "6", "7", "8", "9">>

IsDigit(ch) == \E d \in 1..10 : DigitChars[d] = ch

DigitValue(ch) == (CHOOSE d \in 1..10 : DigitChars[d] = ch) - 1

\* str.isdigit()
IsDigitStr(s) ==
    Len(s) > 0 /\ \A i \in 1..Len(s) : IsDigit(SubSeq(s, i, i))

\* s.strip() for blanks
RECURSIVE Strip(_)
Strip(s) ==
    IF s = "" THEN s
    ELSE IF SubSeq(s, 1, 1) = " " THEN Strip(SubSeq(s, 2, Len(s)))
    ELSE IF SubSeq(s, Len(s), Len(s)) = " " THEN Strip(SubSeq(s, 1, Len(s) - 1))
    ELSE s

\* int(s) raises ValueError unless s, stripped, is a run of digits
IntParses(s) == IsDigitStr(Strip(s))

RECURSIVE DigitsValue(_, _)
DigitsValue(s, acc) ==
    IF s = "" THEN acc
    ELSE DigitsValue(SubSeq(s, 2, Len(s)), 10 * acc + DigitValue(SubSeq(s, 1, 1)))

IntOf(s) == DigitsValue(Strip(s), 0)

\* s.split(sep): the pieces between the occurrences of sep, left to right
RECURSIVE SplitOn(_, _)
SplitOn(s, sep) ==
    IF Contains(s, sep)
    THEN LET i == CHOOSE k \in Occurrences(s, sep) :
                      \A j \in Occurrences(s, sep) : k <= j
         IN <<SubSeq(s, 1, i - 1)>> \o SplitOn(SubSeq(s, i + Len(sep), Len(s)), sep)
    ELSE <<s>>

\* first index >= i of s that holds no blank (\s+ consumed from i)
RECURSIVE SkipBlanks(_, _)
SkipBlanks(s, i) ==
    IF i <= Len(s) /\ SubSeq(s, i, i) = " " THEN SkipBlanks(s, i + 1) ELSE i

\* first index >= i of s that holds no digit (\d+ consumed from i)
RECURSIVE SkipDigits(_, _)
SkipDigits(s, i) ==
    IF i <= Len(s) /\ IsDigit(SubSeq(s, i, i)) THEN SkipDigits(s, i + 1) ELSE i

(***************************************************************************)
(* The site.  A product page is what BeautifulSoup finds in it: the text   *)
(* of each element the detail extractor looks up ("" when the element is   *)
(* absent) and the href of the first anchor ending in "/p".                *)
(***************************************************************************)
BaseUrl == "https://www.farmaponte.com.br/"

ProductUrls == {"https://www.farmaponte.com.br/dipirona-10ml/p",
                "https://www.farmaponte.com.br/shampoo-200ml/p"}

NameAt(u) ==
    IF u = "https://www.farmaponte.com.br/dipirona-10ml/p"
    THEN "Dipirona 10ml" ELSE "Shampoo 200ml"

\* the site serves variant 1 for the first product, a branded page with no
\* "/p" anchor, and variant 2 for the other, an unbranded page whose first
\* "/p" anchor is a cross-sell link to another product
VariantAt(u) ==
    IF u = "https://www.farmaponte.com.br/dipirona-10ml/p" THEN 1 ELSE 2

ProductPageOf(u, variant) ==
    [empty        |-> FALSE,
     h1_name      |-> NameAt(u),
     title_marca  |-> IF variant = 1 THEN "Medley" ELSE "",
     gtin13       |-> IF variant = 1 THEN "7891234567895" ELSE "",
     first_p_href |-> IF variant = 1 THEN "" ELSE "/protetor-solar-50ml/p",
     span_mr3     |-> IF variant = 1 THEN "Cod: 1234" ELSE "",
     discount     |-> IF variant = 1 THEN "-10%" ELSE "",
     unit_price   |-> "R$  19,90",
     sale_price   |-> IF variant = 1 THEN "R$ 17,91" ELSE "",
     pix_price    |-> IF variant = 1 THEN "R$ 17,00  no pix" ELSE "",
     pix_discount |-> IF variant = 1 THEN "5" ELSE "",
     sub_category |-> IF variant = 1 THEN "Analgesicos" ELSE ""]

\* a status-200 response with an empty body
EmptyHtml ==
    [empty |-> TRUE, h1_name |-> "", title_marca |-> "", gtin13 |-> "",
     first_p_href |-> "", span_mr3 |-> "", discount |-> "", unit_price |-> "",
     sale_price |-> "", pix_price |-> "", pix_discount |-> "",
     sub_category |-> ""]

ProductPage(u) == ProductPageOf(u, VariantAt(u))

\* ' '.join(text.split()): runs of blanks collapse to one, none at the ends
RECURSIVE SplitWords(_, _, _)
SplitWords(s, i, word) ==
    IF i > Len(s)
    THEN IF word = "" THEN <<>> ELSE <<word>>
    ELSE IF SubSeq(s, i, i) = " "
         THEN (IF word = "" THEN <<>> ELSE <<word>>) \o SplitWords(s, i + 1, "")
         ELSE SplitWords(s, i + 1, word \o SubSeq(s, i, i))

RECURSIVE JoinWords(_, _)
JoinWords(ws, sep) ==
    IF ws = <<>> THEN ""
    ELSE IF Len(ws) = 1 THEN ws[1]
    ELSE ws[1] \o sep \o JoinWords(Tail(ws), sep)

NormalizeSpaces(text) == JoinWords(SplitWords(text, 1, ""), " ")

(***************************************************************************)
(* urljoin(base, href) for the href shapes the site uses: an absolute URL  *)
(* is kept, a scheme-relative one takes the base's scheme, a path replaces *)
(* the base's path (the base's path is "/"), an empty or fragment-only     *)
(* href gives the base (with the fragment).                                *)
(***************************************************************************)
BaseOrigin == "https://www.farmaponte.com.br"

HasScheme(href) ==
    \/ StartsWith(href, "http://")
    \/ StartsWith(href, "https://")
    \/ StartsWith(href, "javascript:")
    \/ StartsWith(href, "mailto:")
    \/ StartsWith(href, "tel:")

UrlJoinRaw(base, href) == href

UrlJoin(base, href) ==
    IF href = "" THEN base
    ELSE IF HasScheme(href) THEN href
    ELSE IF StartsWith(href, "//") THEN "https:" \o href
    ELSE IF StartsWith(href, "/") THEN BaseOrigin \o href
    ELSE IF StartsWith(href, "#") THEN base \o (IF href = "#" THEN "" ELSE href)
    ELSE base \o href

(***************************************************************************)
(* scrape_product_details (both asyncio scrapers)                          *)
(***************************************************************************)
Sentinel(product_url) ==
    [name |-> "FAILED_TO_FETCH", brand |-> "", code |-> "", gtin |-> "",
     discount |-> "", unit_price |-> "", discount_price |-> "",
     pix_price |-> "", pix_discount |-> "", sub_category |-> "",
     link |-> product_url]

\* extract_product_details; impl is "original" or "enhanced": only the
\* original replaces the link by the page's first anchor ending in "/p"
ExtractProductDetails(impl, html, product_url) ==
    [name           |-> html.h1_name,
     brand          |-> IF html.title_marca = "" THEN "generico"
                        ELSE html.title_marca,
     code           |-> html.span_mr3,
     gtin           |-> html.gtin13,
     discount       |-> html.discount,
     unit_price     |-> NormalizeSpaces(html.unit_price),
     discount_price |-> NormalizeSpaces(html.sale_price),
     pix_price      |-> NormalizeSpaces(html.pix_price),
     pix_discount   |-> IF html.pix_price = "" THEN "" ELSE html.pix_discount,
     sub_category   |-> html.sub_category,
     link           |-> IF impl = "original" /\ html.first_p_href # ""
                        THEN UrlJoin(BaseUrl, html.first_p_href)
                        ELSE product_url]

MaxUrls == 3

RECURSIVE SeqsUpTo(_, _)
SeqsUpTo(S, n) ==
    IF n = 0 THEN {<<>>}
    ELSE SeqsUpTo(S, n - 1) \cup
         {Append(q, x) : q \in {r \in SeqsUpTo(S, n - 1) : Len(r) = n - 1}, x \in S}

Pending == [kind |-> "pending", html |-> EmptyHtml]
NoContent == [kind |-> "none", html |-> EmptyHtml]
RaisedExc == [kind |-> "exception", html |-> EmptyHtml]
Content(html) == [kind |-> "html", html |-> html]

\* the values a fetch_page task can complete with for product_url
TaskOutcomes(product_url) ==
    {NoContent, RaisedExc, Content(EmptyHtml), Content(ProductPage(product_url))}

\* Python truthiness of a task result that is not an exception
Truthy(result) == result.kind = "html" /\ ~result.html.empty

DetailsInit ==
    /\ d_impl \in {"original", "enhanced"}
    /\ product_urls \in SeqsUpTo(ProductUrls, MaxUrls)
    /\ d_task = [i \in 1..Len(product_urls) |-> Pending]
    /\ d_completion = <<>>
    /\ d_results = <<>>
    /\ products_data = <<>>
    /\ d_pc = "fetching"

DetailsIdle ==
    /\ d_impl = "original"
    /\ product_urls = <<>>
    /\ d_task = <<>>
    /\ d_completion = <<>>
    /\ d_results = <<>>
    /\ products_data = <<>>
    /\ d_pc = "done"

\* one fetch_page task completes; tasks run concurrently, in any order
TaskCompletes(i, outcome) ==
    /\ UNCHANGED notDetailVars
    /\ d_pc = "fetching"
    /\ d_task[i] = Pending
    /\ d_task' = [d_task EXCEPT ![i] = outcome]
    /\ d_completion' = Append(d_completion, i)
    /\ UNCHANGED <<d_impl, product_urls, d_results, products_data, d_pc>>

\* a mis-collection: results in completion order (as_completed), not in
\* argument order
GatherInCompletionOrder(tasks, completion) ==
    [k \in 1..Len(completion) |-> tasks[completion[k]]]

\* asyncio.gather(*tasks, return_exceptions=True): the results in the order
\* of the arguments, an exception as a value in its task's position
Gather(tasks, completion) ==
    [k \in 1..Len(completion) |-> tasks[k]]

GatherReturns ==
    /\ UNCHANGED notDetailVars
    /\ d_pc = "fetching"
    /\ \A i \in 1..Len(product_urls) : d_task[i] # Pending
    /\ d_results' = Gather(d_task, d_completion)
    /\ d_pc' = "processing"
    /\ UNCHANGED <<d_impl, product_urls, d_task, d_completion, products_data>>

\* the record appended for one (result, product_url) pair of the zip
RecordFor(impl, result, product_url) ==
    IF result.kind = "exception" THEN Sentinel(product_url)
    ELSE IF Truthy(result)
         THEN ExtractProductDetails(impl, result.html, product_url)
         ELSE Sentinel(product_url)

\* one iteration of `for i, (result, product_url) in enumerate(zip(...))`
ProcessResult ==
    /\ UNCHANGED notDetailVars
    /\ d_pc = "processing"
    /\ Len(products_data) < Len(d_results)
    /\ Len(products_data) < Len(product_urls)
    /\ LET i == Len(products_data) + 1
       IN products_data' =
              Append(products_data, RecordFor(d_impl, d_results[i], product_urls[i]))
    /\ UNCHANGED <<d_impl, product_urls, d_task, d_completion, d_results, d_pc>>

DetailsReturn ==
    /\ UNCHANGED notDetailVars
    /\ d_pc = "processing"
    /\ ~(Len(products_data) < Len(d_results) /\ Len(products_data) < Len(product_urls))
    /\ d_pc' = "done"
    /\ UNCHANGED <<d_impl, product_urls, d_task, d_completion, d_results,
                   products_data>>

(***************************************************************************)
(* The fetchers.  FarmaponteScraper.baixar_url and VeraCruzScraper          *)
(* .baixar_url run on the threads of the worker pools; fetch_page runs as  *)
(* asyncio tasks.  A step is one lock section, one network request or one  *)
(* access to a shared attribute.                                           *)
(***************************************************************************)
Callers == {1, 2}
MaxCalls == 3

FetchUrls == {"https://www.farmaponte.com.br/saude/?p=1",
              "https://www.farmaponte.com.br/dipirona-10ml/p"}
Bodies == {"v1", "v2"}

FetchImpls == {"farmaponte", "veracruz", "fetch_page"}

\* the default attempt budgets: tentativas=2, tentativas=3, retries=3
FarmaponteTentativas == 2
VeraCruzTentativas == 3
FetchPageRetries == 3
MaxConcurrentRequests == 10

Budget(impl) ==
    IF impl = "farmaponte" THEN FarmaponteTentativas
    ELSE IF impl = "veracruz" THEN VeraCruzTentativas
    ELSE FetchPageRetries

NoResp == [status |-> 0, body |-> ""]
\* a response kept whatever its status
RespAnyStatus(body) == [status |-> 500, body |-> body]

Resp200(body) == [status |-> 200, body |-> body]

\* what one GET can end in: a status, or an exception of the HTTP client
GetOutcomes ==
    {[kind |-> "200", body |-> b] : b \in Bodies} \cup
    {[kind |-> k, body |-> ""] : k \in {"429", "500", "timeout", "neterror"}}

IsException(kind) == kind \in {"timeout", "neterror"}

\* a handler that catches the timeout only
CatchesTimeoutOnly(impl, kind) == kind = "timeout"

Min(a, b) == IF a < b THEN a ELSE b

\* `except Exception` (and, in fetch_page, `except asyncio.TimeoutError`
\* before it) catches every exception the client raises
Catches(impl, kind) == IsException(kind)

IdleCall ==
    [pc |-> "idle", url |-> "", kind |-> "", body |-> "", gets |-> 0,
     result |-> NoResp, tmp |-> 0, prior |-> NoResp]

FetchInit ==
    /\ f_impl \in FetchImpls
    /\ url_cache = [u \in FetchUrls |-> NoResp]
    /\ consecutive_errors = 0
    /\ semaphore = 0
    /\ f_call = [t \in Callers |-> IdleCall]
    /\ f_calls_left = MaxCalls
    /\ f_first200 = [u \in FetchUrls |-> NoResp]

FetchIdle ==
    /\ f_impl = "farmaponte"
    /\ url_cache = [u \in FetchUrls |-> NoResp]
    /\ consecutive_errors = 0
    /\ semaphore = 0
    /\ f_call = [t \in Callers |-> IdleCall]
    /\ f_calls_left = 0
    /\ f_first200 = [u \in FetchUrls |-> NoResp]

\* the call returns `result`
Returned(c, result) ==
    [c EXCEPT !.pc = "done", !.result = result, !.kind = "", !.body = "", !.tmp = 0]

NoteReturn(u, result) ==
    IF result.status = 200 /\ f_first200[u] = NoResp
    THEN [f_first200 EXCEPT ![u] = result]
    ELSE f_first200

\* caller t calls baixar_url(u) / fetch_page(u)
FCall(t, u) ==
    /\ UNCHANGED notFetchVars
    /\ f_call[t].pc \in {"idle", "done"}
    /\ f_calls_left > 0
    /\ f_calls_left' = f_calls_left - 1
    /\ f_call' = [f_call EXCEPT ![t] =
          [IdleCall EXCEPT !.url = u, !.prior = f_first200[u],
              !.pc = IF f_impl = "farmaponte" THEN "cache_check"
                     ELSE IF f_impl = "fetch_page" THEN "acquire"
                     ELSE "get"]]
    /\ UNCHANGED <<f_impl, url_cache, consecutive_errors, semaphore, f_first200>>

\* `with self.cache_lock: if url in self.url_cache: return self.url_cache[url]`
CacheLookup(cache, u) == cache[u]

FCacheCheck(t) ==
    /\ UNCHANGED notFetchVars
    /\ f_call[t].pc = "cache_check"
    /\ LET hit == CacheLookup(url_cache, f_call[t].url)
       IN IF hit # NoResp
          THEN /\ f_call' = [f_call EXCEPT ![t] = Returned(@, hit)]
               /\ f_first200' = NoteReturn(f_call[t].url, hit)
          ELSE /\ f_call' = [f_call EXCEPT ![t].pc = "rate_limit"]
               /\ UNCHANGED f_first200
    /\ UNCHANGED <<f_impl, url_cache, consecutive_errors, semaphore, f_calls_left>>

\* `async with self.semaphore`
FAcquire(t) ==
    /\ UNCHANGED notFetchVars
    /\ f_call[t].pc = "acquire"
    /\ semaphore < MaxConcurrentRequests
    /\ semaphore' = semaphore + 1
    /\ f_call' = [f_call EXCEPT ![t].pc = "get"]
    /\ UNCHANGED <<f_impl, url_cache, consecutive_errors, f_calls_left, f_first200>>

\* `with self.request_lock`: the delay from the error counter, the sleep,
\* the watermark
FRateLimit(t) ==
    /\ UNCHANGED notFetchVars
    /\ f_call[t].pc = "rate_limit"
    /\ f_call' = [f_call EXCEPT ![t].pc = "get"]
    /\ UNCHANGED <<f_impl, url_cache, consecutive_errors, semaphore, f_calls_left,
                   f_first200>>

\* after a failed attempt (c.gets counts it): the next iteration of
\* `for i in range(tentativas)`, or `return None`
AfterFailure(c) ==
    IF c.gets < Budget(f_impl)
    THEN [c EXCEPT !.tmp = 0, !.kind = "",
                   !.pc = IF f_impl = "farmaponte" THEN "rate_limit" ELSE "get"]
    ELSE Returned(c, NoResp)

\* one GET and what the code does with its outcome up to the next access
\* to shared state
FGet(t, out) ==
    /\ UNCHANGED notFetchVars
    /\ f_call[t].pc = "get"
    /\ LET c == [f_call[t] EXCEPT !.gets = @ + 1, !.kind = out.kind,
                                  !.body = out.body]
       IN IF IsException(out.kind) /\ ~Catches(f_impl, out.kind)
          THEN /\ f_call' = [f_call EXCEPT ![t] = [c EXCEPT !.pc = "raised"]]
               /\ semaphore' = IF f_impl = "fetch_page" THEN semaphore - 1
                                ELSE semaphore
               /\ UNCHANGED f_first200
          ELSE IF f_impl = "farmaponte"
          THEN /\ f_call' = [f_call EXCEPT ![t] =
                     [c EXCEPT !.pc = IF out.kind = "200" THEN "reset"
                                      ELSE "inc_read"]]
               /\ UNCHANGED <<semaphore, f_first200>>
          ELSE LET n == IF out.kind = "200" THEN Returned(c, Resp200(out.body))
                        ELSE AfterFailure(c)
               IN /\ f_call' = [f_call EXCEPT ![t] = n]
                  /\ semaphore' = IF f_impl = "fetch_page" /\ n.pc = "done"
                                   THEN semaphore - 1 ELSE semaphore
                  /\ f_first200' = IF n.pc = "done"
                                    THEN NoteReturn(c.url, n.result)
                                    ELSE f_first200
    /\ UNCHANGED <<f_impl, url_cache, consecutive_errors, f_calls_left>>

\* `self.consecutive_errors = 0`
FResetErrors(t) ==
    /\ UNCHANGED notFetchVars
    /\ f_call[t].pc = "reset"
    /\ consecutive_errors' = 0
    /\ f_call' = [f_call EXCEPT ![t].pc = "store"]
    /\ UNCHANGED <<f_impl, url_cache, semaphore, f_calls_left, f_first200>>

\* `with self.cache_lock: self.url_cache[url] = response` and `return response`
FStore(t) ==
    /\ UNCHANGED notFetchVars
    /\ f_call[t].pc = "store"
    /\ LET r == Resp200(f_call[t].body)
       IN /\ url_cache' = [url_cache EXCEPT ![f_call[t].url] = r]
          /\ f_call' = [f_call EXCEPT ![t] = Returned(@, r)]
          /\ f_first200' = NoteReturn(f_call[t].url, r)
    /\ UNCHANGED <<f_impl, consecutive_errors, semaphore, f_calls_left>>

\* `self.consecutive_errors += 1` is a read and a write, under no lock
FIncRead(t) ==
    /\ UNCHANGED notFetchVars
    /\ f_call[t].pc = "inc_read"
    /\ f_call' = [f_call EXCEPT ![t].pc = "inc_write",
                                ![t].tmp = consecutive_errors]
    /\ UNCHANGED <<f_impl, url_cache, consecutive_errors, semaphore, f_calls_left,
                   f_first200>>

FIncWrite(t) ==
    /\ UNCHANGED notFetchVars
    /\ f_call[t].pc = "inc_write"
    /\ consecutive_errors' = f_call[t].tmp + 1
    /\ f_call' = [f_call EXCEPT ![t] = AfterFailure(@)]
    /\ UNCHANGED <<f_impl, url_cache, semaphore, f_calls_left, f_first200>>

FetchNext ==
    \/ \E t \in Callers, u \in FetchUrls : FCall(t, u)
    \/ \E t \in Callers : FCacheCheck(t)
    \/ \E t \in Callers : FAcquire(t)
    \/ \E t \in Callers : FRateLimit(t)
    \/ \E t \in Callers, out \in GetOutcomes : FGet(t, out)
    \/ \E t \in Callers : FResetErrors(t)
    \/ \E t \in Callers : FStore(t)
    \/ \E t \in Callers : FIncRead(t)
    \/ \E t \in Callers : FIncWrite(t)

(***************************************************************************)
(* Page-count discovery of the thread-pool scrapers.  `divs` holds the     *)
(* get_text(strip=True) of each div.text-center.pt-3 inside the            *)
(* div.page-template of the page, in document order.                       *)
(***************************************************************************)
\* re.search(r'Página\s+\d+\s+de\s+(\d+)', texto) tried at position i:
\* the captured group, "" when the pattern does not match there
PaginaMatchAt(texto, i) ==
    LET a == i + Len("Página")
        b == SkipBlanks(texto, a)
        c == SkipDigits(texto, b)
        d == SkipBlanks(texto, c)
        e == d + 2
        f == SkipBlanks(texto, e)
        g == SkipDigits(texto, f)
    IN IF /\ b > a /\ c > b /\ d > c
          /\ e - 1 <= Len(texto) /\ SubSeq(texto, d, e - 1) = "de"
          /\ f > e /\ g > f
       THEN SubSeq(texto, f, g - 1)
       ELSE ""

\* the group of the leftmost match, "" when there is none
PaginaSearch(texto) ==
    LET hits == {i \in Occurrences(texto, "Página") : PaginaMatchAt(texto, i) # ""}
    IN IF hits = {} THEN ""
       ELSE PaginaMatchAt(texto, CHOOSE i \in hits : \A j \in hits : i <= j)

\* FarmaponteScraper.achar_total_paginas
RECURSIVE AcharTotalPaginasFarmaponte(_)
AcharTotalPaginasFarmaponte(divs) ==
    IF divs = <<>> THEN 1
    ELSE IF Contains(Head(divs), "Página") /\ PaginaSearch(Head(divs)) # ""
         THEN IntOf(PaginaSearch(Head(divs)))
         ELSE AcharTotalPaginasFarmaponte(Tail(divs))

\* VeraCruzScraper.achar_total_paginas: the last word, when it is a number
RECURSIVE AcharTotalPaginasVeraCruz(_)
AcharTotalPaginasVeraCruz(divs) ==
    IF divs = <<>> THEN 1
    ELSE LET partes == SplitWords(Head(divs), 1, "")
         IN IF Contains(Head(divs), "Página") /\ IsDigitStr(partes[Len(partes)])
            THEN IntOf(partes[Len(partes)])
            ELSE AcharTotalPaginasVeraCruz(Tail(divs))

AcharTotalPaginas(impl, divs) ==
    IF impl = "farmaponte" THEN AcharTotalPaginasFarmaponte(divs)
    ELSE AcharTotalPaginasVeraCruz(divs)

(***************************************************************************)
(* scrape() of FarmaponteScraper and VeraCruzScraper: the first page, then *)
(* a pool of page workers, each with a pool of product workers.  A call of *)
(* baixar_url is taken by its contract: a response or None.                *)
(***************************************************************************)
ScrapePages == 2
ProductsPerPage == 2

PageWorkers == 5
ProductWorkers == 8

\* the pagination divs the first page may show
ScrapeDivs ==
    {<<>>, <<"Página 1 de 1">>, <<"794 resultados", "Página 1 de 2">>,
     <<"Página 1 de " \o DigitChars[ScrapePages + 1]>>}

\* the exceptions that can leave scrape()
NoneContentError == "AttributeError: 'NoneType' object has no attribute 'content'"
EmptyTableError == "KeyError: 'Preco_unitario'"
WorkerError == "exception of a product worker"

NewPage ==
    [st |-> "queued", prod |-> [j \in 1..ProductsPerPage |-> "none"], out |-> {}]

ScrapeInit ==
    /\ s_impl \in {"farmaponte", "veracruz"}
    /\ s_divs \in ScrapeDivs
    /\ s_max_paginas \in {0, 1}
    /\ s_pc = "start"
    /\ s_error = ""
    /\ total_paginas = 0
    /\ s_page = <<>>
    /\ lista_de_produtos = {}

ScrapeIdle ==
    /\ s_impl = "farmaponte"
    /\ s_divs = <<>>
    /\ s_max_paginas = 0
    /\ s_pc = "returned"
    /\ s_error = ""
    /\ total_paginas = 0
    /\ s_page = <<>>
    /\ lista_de_produtos = {}

\* the pages submitted to the page pool
PagesToSubmit(impl, total, max_paginas) ==
    IF impl = "farmaponte" /\ max_paginas # 0
    THEN IF max_paginas < total THEN max_paginas ELSE total
    ELSE total

\* `response = self.baixar_url(self.url)` and the lines up to the pools:
\* `response.content` of a None response raises AttributeError
FirstPage(ok) ==
    /\ UNCHANGED notScrapeVars
    /\ s_pc = "start"
    /\ IF ok
       THEN LET total == AcharTotalPaginas(s_impl, s_divs)
            IN /\ total_paginas' = total
               /\ s_page' = [p \in 1..PagesToSubmit(s_impl, total, s_max_paginas)
                                |-> NewPage]
               /\ s_pc' = "pages"
               /\ s_error' = ""
       ELSE /\ s_pc' = "raised"
            /\ s_error' = NoneContentError
            /\ UNCHANGED <<total_paginas, s_page>>
    /\ UNCHANGED <<s_impl, s_divs, s_max_paginas, lista_de_produtos>>

PagesRunning == {p \in DOMAIN s_page : s_page[p].st \in {"fetching", "products", "unwinding"}}

\* a page worker takes processar_pagina_completa(p) / processar_pagina(p)
PageStart(p) ==
    /\ UNCHANGED notScrapeVars
    /\ s_pc \in {"pages", "unwinding"}
    /\ s_page[p].st = "queued"
    /\ Cardinality(PagesRunning) < PageWorkers
    /\ s_page' = [s_page EXCEPT ![p].st = "fetching"]
    /\ UNCHANGED <<s_impl, s_divs, s_max_paginas, s_pc, s_error, total_paginas,
                   lista_de_produtos>>

\* `response = self.baixar_url(url_pagina)`; no response: `return []`;
\* otherwise the div.li products are submitted to the product pool
PageFetched(p, ok) ==
    /\ UNCHANGED notScrapeVars
    /\ s_page[p].st = "fetching"
    /\ s_page' = [s_page EXCEPT ![p] =
          IF ok THEN [@ EXCEPT !.st = "products",
                               !.prod = [j \in 1..ProductsPerPage |-> "queued"]]
          ELSE [@ EXCEPT !.st = "done"]]
    /\ UNCHANGED <<s_impl, s_divs, s_max_paginas, s_pc, s_error, total_paginas,
                   lista_de_produtos>>

ProductsRunning(p) == {j \in 1..ProductsPerPage : s_page[p].prod[j] = "running"}

\* a product worker takes processar_produto_rapido / processar_produto
ProductStart(p, j) ==
    /\ UNCHANGED notScrapeVars
    /\ s_page[p].st \in {"products", "unwinding"}
    /\ s_page[p].prod[j] = "queued"
    /\ Cardinality(ProductsRunning(p)) < ProductWorkers
    /\ s_page' = [s_page EXCEPT ![p].prod[j] = "running"]
    /\ UNCHANGED <<s_impl, s_divs, s_max_paginas, s_pc, s_error, total_paginas,
                   lista_de_produtos>>

\* the worker returns a record, or an exception ends it (a parser error)
ProductEnds(p, j, raises) ==
    /\ UNCHANGED notScrapeVars
    /\ s_page[p].prod[j] = "running"
    /\ s_page' = [s_page EXCEPT ![p].prod[j] = IF raises THEN "raised" ELSE "ok"]
    /\ UNCHANGED <<s_impl, s_divs, s_max_paginas, s_pc, s_error, total_paginas,
                   lista_de_produtos>>

\* `resultado = future.result()` returns the record or re-raises
ResultOf(status) == status

\* one iteration of `for future in as_completed(futures)` of the page
PageCollects(p, j) ==
    /\ UNCHANGED notScrapeVars
    /\ s_page[p].st = "products"
    /\ s_page[p].prod[j] \in {"ok", "raised"}
    /\ s_page' = [s_page EXCEPT ![p] =
          IF ResultOf(s_page[p].prod[j]) = "raised"
          THEN [@ EXCEPT !.st = "unwinding"]
          ELSE [@ EXCEPT !.prod[j] = "collected",
                         !.out = IF s_page[p].prod[j] = "ok" THEN @ \cup {<<p, j>>}
                                 ELSE @]]
    /\ UNCHANGED <<s_impl, s_divs, s_max_paginas, s_pc, s_error, total_paginas,
                   lista_de_produtos>>

\* the loop is over: `return produtos_pagina`
PageReturns(p) ==
    /\ UNCHANGED notScrapeVars
    /\ s_page[p].st = "products"
    /\ \A j \in 1..ProductsPerPage : s_page[p].prod[j] = "collected"
    /\ s_page' = [s_page EXCEPT ![p].st = "done"]
    /\ UNCHANGED <<s_impl, s_divs, s_max_paginas, s_pc, s_error, total_paginas,
                   lista_de_produtos>>

\* the exception leaves the `with ThreadPoolExecutor` block of the page once
\* every product worker has ended, and ends the page's task
PageRaises(p) ==
    /\ UNCHANGED notScrapeVars
    /\ s_page[p].st = "unwinding"
    /\ \A j \in 1..ProductsPerPage :
          s_page[p].prod[j] \in {"ok", "raised", "collected"}
    /\ s_page' = [s_page EXCEPT ![p].st = "failed"]
    /\ UNCHANGED <<s_impl, s_divs, s_max_paginas, s_pc, s_error, total_paginas,
                   lista_de_produtos>>

\* one iteration of `for future in as_completed(page_futures)` of scrape()
ScrapeCollects(p) ==
    /\ UNCHANGED notScrapeVars
    /\ s_pc = "pages"
    /\ s_page[p].st \in {"done", "failed"}
    /\ IF ResultOf(IF s_page[p].st = "failed" THEN "raised" ELSE "ok") = "raised"
       THEN /\ s_pc' = "unwinding"
            /\ s_error' = WorkerError
            /\ UNCHANGED <<s_page, lista_de_produtos>>
       ELSE /\ lista_de_produtos' = lista_de_produtos \cup s_page[p].out
            /\ s_page' = [s_page EXCEPT ![p].st = "collected"]
            /\ UNCHANGED <<s_pc, s_error>>
    /\ UNCHANGED <<s_impl, s_divs, s_max_paginas, total_paginas>>

\* the exception leaves the `with ThreadPoolExecutor` block of scrape() once
\* every page task has ended, and leaves scrape()
ScrapeRaises ==
    /\ UNCHANGED notScrapeVars
    /\ s_pc = "unwinding"
    /\ \A p \in DOMAIN s_page : s_page[p].st \in {"done", "failed", "collected"}
    /\ s_pc' = "raised"
    /\ UNCHANGED <<s_impl, s_divs, s_max_paginas, s_error, total_paginas, s_page,
                   lista_de_produtos>>

\* the table and the statistics: FarmaponteScraper.scrape reads the column
\* Preco_unitario, which a table built from no record does not have
ScrapeFinishes ==
    /\ UNCHANGED notScrapeVars
    /\ s_pc = "pages"
    /\ \A p \in DOMAIN s_page : s_page[p].st = "collected"
    /\ IF s_impl = "farmaponte" /\ lista_de_produtos = {}
       THEN /\ s_pc' = "raised"
            /\ s_error' = EmptyTableError
       ELSE /\ s_pc' = "returned"
            /\ s_error' = ""
    /\ UNCHANGED <<s_impl, s_divs, s_max_paginas, total_paginas, s_page,
                   lista_de_produtos>>

ScrapeNext ==
    \/ \E ok \in BOOLEAN : FirstPage(ok)
    \/ \E p \in DOMAIN s_page : PageStart(p)
    \/ \E p \in DOMAIN s_page, ok \in BOOLEAN : PageFetched(p, ok)
    \/ \E p \in DOMAIN s_page, j \in 1..ProductsPerPage : ProductStart(p, j)
    \/ \E p \in DOMAIN s_page, j \in 1..ProductsPerPage, raises \in BOOLEAN :
          ProductEnds(p, j, raises)
    \/ \E p \in DOMAIN s_page, j \in 1..ProductsPerPage : PageCollects(p, j)
    \/ \E p \in DOMAIN s_page : PageReturns(p)
    \/ \E p \in DOMAIN s_page : PageRaises(p)
    \/ \E p \in DOMAIN s_page : ScrapeCollects(p)
    \/ ScrapeRaises
    \/ ScrapeFinishes

(***************************************************************************)
(* The link extractors.  An anchor is its href ("" when it has none), and  *)
(* whether it carries the class item-image and whether it lies inside a    *)
(* div or article with a class containing product, item or card.           *)
(***************************************************************************)
UpperChars == <<"A", "B", "C", "D", "E", "F", "G", "H", "I", "J", "K", "L", "M",
                "N", "O", "P", "Q", "R", "S", "T", "U", "V", "W", "X", "Y", "Z">>
LowerChars == <<"a", "b", "c", "d", "e", "f", "g", "h", "i", "j", "k", "l", "m",
                "n", "o", "p", "q", "r", "s", "t", "u", "v", "w", "x", "y", "z">>

LowerChar(ch) ==
    IF \E n \in 1..26 : UpperChars[n] = ch
    THEN LowerChars[CHOOSE n \in 1..26 : UpperChars[n] = ch]
    ELSE ch

\* str.lower()
RECURSIVE Lower(_)
Lower(s) ==
    IF s = "" THEN ""
    ELSE LowerChar(SubSeq(s, 1, 1)) \o Lower(SubSeq(s, 2, Len(s)))

\* href.strip('/')
RECURSIVE StripSlashes(_)
StripSlashes(s) ==
    IF s = "" THEN s
    ELSE IF SubSeq(s, 1, 1) = "/" THEN StripSlashes(SubSeq(s, 2, Len(s)))
    ELSE IF SubSeq(s, Len(s), Len(s)) = "/" THEN StripSlashes(SubSeq(s, 1, Len(s) - 1))
    ELSE s

\* href.count('/')
SlashCount(href) == Cardinality(Occurrences(href, "/"))

ContainsAny(s, subs) == \E sub \in subs : Contains(s, sub)

Anchor(href, item_image, in_container) ==
    [href |-> href, item_image |-> item_image, in_container |-> in_container]

\* the anchors the category pages are made of
AnchorPool ==
    {Anchor("/dipirona-10ml/p", TRUE, TRUE),
     Anchor("https://www.farmaponte.com.br/dipirona-10ml/p", FALSE, TRUE),
     Anchor("shampoo-200ml/p", FALSE, FALSE),
     Anchor("#", TRUE, FALSE),
     Anchor("http://other.com/oferta/p", FALSE, FALSE),
     Anchor("/marca/medley/p", FALSE, FALSE),
     Anchor("/Vitamina-C-60CAPS/p", FALSE, TRUE),
     Anchor("escova/p", FALSE, FALSE),
     Anchor("/institucional/quem-somos", FALSE, FALSE)}

\* Method 1 of both extractors: a.item-image with an href
Method1(html, base) ==
    {UrlJoin(base, a.href) : a \in {x \in html : x.item_image /\ x.href # ""}}

\* Method 2: an href ending in "/p"; the enhanced extractor also wants two
\* slashes in it
Method2Takes(impl, href) ==
    /\ href # ""
    /\ EndsWith(href, "/p")
    /\ (impl = "enhanced" => SlashCount(href) >= 2)

Method2(impl, html, base) ==
    {UrlJoin(base, a.href) : a \in {x \in html : Method2Takes(impl, x.href)}}

SkippedSchemes == {"javascript:", "mailto:", "tel:", "#"}
CategoryWords == {"categoria", "brand", "marca"}
ProductIndicators == {"ml", "mg", "gr", "com-", "caixa", "frasco", "cx", "un", "und"}

\* Method 3 of the enhanced extractor: is this href a product link
IsProductHref(href) ==
    /\ ~(StartsWith(href, "http") /\ ~Contains(href, "farmaponte.com.br"))
    /\ ~ContainsAny(Lower(href), SkippedSchemes)
    /\ \/ /\ EndsWith(href, "/p")
          /\ SlashCount(href) >= 2
          /\ Len(SplitOn(StripSlashes(href), "/")) >= 2
          /\ ~ContainsAny(href, CategoryWords)
       \/ /\ ContainsAny(Lower(href), ProductIndicators)
          /\ Contains(href, "/p")

Method3(html, base) ==
    {UrlJoin(base, a.href) : a \in {x \in html : x.href # "" /\ IsProductHref(x.href)}}

\* Method 4 of the enhanced extractor: anchors inside product containers
Method4Takes(a) ==
    /\ a.in_container
    /\ a.href # ""
    /\ Contains(a.href, "/p")
    /\ EndsWith(a.href, "/p")

Method4(html, base) ==
    {UrlJoin(base, a.href) : a \in {x \in html : Method4Takes(x)}}

\* the methods an extractor runs, in order
Methods(impl) == IF impl = "original" THEN <<1, 2>> ELSE <<1, 2, 3, 4>>

MethodLinks(impl, n, html, base) ==
    IF n = 1 THEN Method1(html, base)
    ELSE IF n = 2 THEN Method2(impl, html, base)
    ELSE IF n = 3 THEN Method3(html, base)
    ELSE Method4(html, base)

\* extract_product_links_from_page / extract_product_links_from_page_enhanced
ExtractLinks(impl, html, base) ==
    UNION {MethodLinks(impl, Methods(impl)[n], html, base) :
              n \in 1..Len(Methods(impl))}

(***************************************************************************)
(* The extraction loop of scrape_category_pages /                          *)
(* scrape_category_pages_enhanced over the pages it fetched.               *)
(***************************************************************************)
MaxAnchors == 2
LinkPages == 2

PagesUpTo(n) == {html \in SUBSET AnchorPool : Cardinality(html) <= n}

\* the pages that hold the anchors `chosen`, each on the pages `place` says
PageLayout(chosen, place) ==
    [p \in 1..LinkPages |-> {a \in chosen : p \in place[a]}]

LinksInit ==
    /\ l_impl \in {"original", "enhanced"}
    /\ \E chosen \in PagesUpTo(MaxAnchors) :
          \E place \in [chosen -> (SUBSET (1..LinkPages)) \ {{}}] :
             pages_html = PageLayout(chosen, place)
    /\ l_k = 1
    /\ l_method = 1
    /\ product_links = {}
    /\ l_returned = <<>>
    /\ all_product_links = {}

LinksIdle ==
    /\ l_impl = "original"
    /\ pages_html = <<>>
    /\ l_k = 1
    /\ l_method = 1
    /\ product_links = {}
    /\ l_returned = <<>>
    /\ all_product_links = {}

\* the next method of the extractor adds what it finds to product_links
RunMethod ==
    /\ UNCHANGED notLinkVars
    /\ l_k <= Len(pages_html)
    /\ l_method <= Len(Methods(l_impl))
    /\ product_links' = product_links \cup
          MethodLinks(l_impl, Methods(l_impl)[l_method], pages_html[l_k], BaseUrl)
    /\ l_method' = l_method + 1
    /\ UNCHANGED <<l_impl, pages_html, l_k, l_returned, all_product_links>>

\* `return product_links` and `all_product_links.update(page_links)`
UpdateAll ==
    /\ UNCHANGED notLinkVars
    /\ l_k <= Len(pages_html)
    /\ l_method > Len(Methods(l_impl))
    /\ all_product_links' = all_product_links \cup product_links
    /\ l_returned' = Append(l_returned, product_links)
    /\ product_links' = {}
    /\ l_method' = 1
    /\ l_k' = l_k + 1
    /\ UNCHANGED <<l_impl, pages_html>>

LinksNext == RunMethod \/ UpdateAll

(***************************************************************************)
(* The category catalogue: get_category_info, discover_all_categories,     *)
(* scrape_category_pages(_enhanced) and scrape_all_categories(_enhanced).  *)
(***************************************************************************)
\* the site: the texts of the div.text-center.pt-3 elements of each
\* category page, and the anchors of each of its listing pages
CategoryNames == {"mamae-e-bebe", "saude", "beleza", "medley"}

InfoDivs(category) ==
    IF category = "mamae-e-bebe" THEN <<"Página 1 de 3", "4 resultados">>
    ELSE IF category = "saude" THEN <<"2 resultados">>
    ELSE IF category = "beleza" THEN <<"Página 1 de 1", "1 resultado">>
    ELSE <<"Página 1 de 2">>

CategoryPage(category, page_num) ==
    IF category = "mamae-e-bebe" THEN
        IF page_num = 1 THEN {Anchor("/dipirona-10ml/p", TRUE, TRUE),
                              Anchor("https://www.farmaponte.com.br/dipirona-10ml/p", FALSE, TRUE),
                              Anchor("shampoo-200ml/p", FALSE, FALSE)}
        ELSE IF page_num = 2 THEN {Anchor("/dipirona-10ml/p", TRUE, TRUE),
                                   Anchor("/Vitamina-C-60CAPS/p", FALSE, TRUE)}
        ELSE {Anchor("escova/p", FALSE, FALSE),
              Anchor("/institucional/quem-somos", FALSE, FALSE)}
    ELSE IF category = "saude" THEN
        {Anchor("/dipirona-10ml/p", TRUE, TRUE), Anchor("shampoo-200ml/p", FALSE, FALSE)}
    ELSE IF category = "beleza" THEN
        {Anchor("/Vitamina-C-60CAPS/p", FALSE, TRUE)}
    ELSE IF page_num = 1 THEN {Anchor("/dipirona-10ml/p", TRUE, TRUE)}
    ELSE {Anchor("shampoo-200ml/p", FALSE, FALSE)}

\* what the last attempt of a fetch_page call ended in
FetchKinds == {"200", "429", "500", "timeout", "neterror"}

\* fetch_page as a whole: the text on a 200, None once the attempts are
\* used up, and an exception only if a handler lets one through
FetchPageResult(kind) ==
    IF kind = "200" THEN "html"
    ELSE IF IsException(kind) /\ ~Catches("fetch_page", kind) THEN "raise"
    ELSE "none"

\* the separator the results text is split on
ResultsSep(impl, text) ==
    IF impl = "enhanced" /\ ~Contains(text, "resultados") THEN " resultado"
    ELSE " resultados"

IsResultsText(impl, text) ==
    \/ Contains(text, "resultados")
    \/ impl = "enhanced" /\ Contains(text, "resultado")

\* the loop of get_category_info over info_divs, from div n on
RECURSIVE InfoFrom(_, _, _, _, _)
InfoFrom(impl, divs, n, pages, products) ==
    IF n > Len(divs) THEN [pages |-> pages, products |-> products]
    ELSE LET text == divs[n]
             after == SplitOn(text, " de ")
             before == SplitOn(text, ResultsSep(impl, text))
         IN IF Contains(text, "Página") /\ Contains(text, " de ")
            THEN InfoFrom(impl, divs, n + 1,
                          IF Len(after) > 1 /\ IntParses(after[2])
                          THEN IntOf(after[2]) ELSE pages,
                          products)
            ELSE IF IsResultsText(impl, text)
            THEN InfoFrom(impl, divs, n + 1, pages,
                          IF Len(before) > 0 /\ IntParses(before[1])
                          THEN IntOf(before[1]) ELSE products)
            ELSE InfoFrom(impl, divs, n + 1, pages, products)

\* get_category_info: (0, 0) when the category page could not be fetched
GetCategoryInfo(impl, fetched, divs) ==
    IF ~fetched THEN [fetched |-> FALSE, pages |-> 0, products |-> 0]
    ELSE LET info == InfoFrom(impl, divs, 1, 0, 0)
         IN [fetched |-> TRUE, pages |-> info.pages, products |-> info.products]

\* "valid" of the enhanced get_category_info
Valid(info) == info.fetched /\ info.pages > 0 /\ info.products > 0

\* all_product_links = page_links
UpdateReplacing(links, page_links) == page_links

\* all_product_links.update(page_links)
Update(links, page_links) == links \cup page_links

\* extraction_rate <= 80
LowExtractionRateInclusive(actual, expected) ==
    IF expected > 0 THEN actual * 100 <= 80 * expected ELSE TRUE

\* extraction_rate < 80, with extraction_rate = actual / expected * 100
\* when expected > 0 and 0 otherwise
LowExtractionRate(actual, expected) ==
    IF expected > 0 THEN actual * 100 < 80 * expected ELSE TRUE

\* the validation of a category: the enhanced scraper flags a low rate,
\* the original one a count that differs from the expected one
Report(impl, actual, expected) ==
    [actual |-> actual, expected |-> expected,
     flagged |-> IF impl = "enhanced" THEN LowExtractionRate(actual, expected)
                 ELSE actual # expected]

MaxCategories == 2

CategoryLists ==
    {q \in SeqsUpTo(CategoryNames, MaxCategories) :
        /\ Len(q) > 0
        /\ \A m, n \in 1..Len(q) : m # n => q[m] # q[n]}

EmptyMap == [x \in {} |-> 0]

CatalogInit ==
    /\ c_impl \in {"original", "enhanced"}
    /\ categories \in CategoryLists
    /\ c_pc = IF c_impl = "original" THEN "info" ELSE "discover"
    /\ c_i = 1
    /\ c_info = EmptyMap
    /\ discovered_categories = EmptyMap
    /\ c_task = EmptyMap
    /\ c_pages_html = <<>>
    /\ c_k = 1
    /\ c_links = {}
    /\ category_results = EmptyMap
    /\ c_report = EmptyMap

CatalogIdle ==
    /\ c_impl = "original"
    /\ categories = <<>>
    /\ c_pc = "done"
    /\ c_i = 1
    /\ c_info = EmptyMap
    /\ discovered_categories = EmptyMap
    /\ c_task = EmptyMap
    /\ c_pages_html = <<>>
    /\ c_k = 1
    /\ c_links = {}
    /\ category_results = EmptyMap
    /\ c_report = EmptyMap

\* the index of the first category from n on that `discovered` holds
NextDiscovered(discovered, n) ==
    LET rest == {m \in n..Len(categories) : categories[m] \in DOMAIN discovered}
    IN IF rest = {} THEN Len(categories) + 1
       ELSE CHOOSE m \in rest : \A o \in rest : m <= o

\* scrape_category_pages(category, max_pages) creates its fetch tasks
\* range(max_pages): the page numbers 0 .. max_pages - 1
PageRangeFromZero(max_pages) == 0..(max_pages - 1)

\* range(1, max_pages + 1): the page numbers whose URLs are generated
PageRange(max_pages) == 1..max_pages

StartPages(category, max_pages) ==
    /\ c_task' = (category :> [page_num \in PageRange(max_pages) |-> "pending"]) @@ c_task
    /\ c_pages_html' = <<>>
    /\ c_k' = 1
    /\ c_links' = {}
    /\ c_pc' = "fetch"

\* the loop of the original scrape_all_categories goes on with category n
OriginalLoop(n) ==
    /\ c_i' = n
    /\ c_pc' = IF n > Len(categories) THEN "done" ELSE "info"

\* the loop of scrape_all_categories_enhanced goes on with the first
\* discovered category from n on
EnhancedLoop(discovered, n) ==
    /\ c_i' = NextDiscovered(discovered, n)
    /\ c_pc' = IF NextDiscovered(discovered, n) > Len(categories) THEN "done" ELSE "scrape"

\* the original loop body up to `continue` or the call of scrape_category_pages
CGetInfo(kind) ==
    /\ UNCHANGED notCatalogVars
    /\ c_pc = "info"
    /\ LET category == categories[c_i]
           info == GetCategoryInfo(c_impl, FetchPageResult(kind) = "html", InfoDivs(category))
       IN IF FetchPageResult(kind) = "raise"
          THEN /\ c_pc' = "raised"
               /\ UNCHANGED <<c_i, c_info, c_task, c_pages_html, c_k, c_links>>
          ELSE /\ c_info' = (category :> info) @@ c_info
               /\ IF info.pages = 0
                  THEN /\ OriginalLoop(c_i + 1)
                       /\ UNCHANGED <<c_task, c_pages_html, c_k, c_links>>
                  ELSE /\ StartPages(category, info.pages)
                       /\ UNCHANGED c_i
    /\ UNCHANGED <<c_impl, categories, discovered_categories, category_results, c_report>>

\* one round of the loop of discover_all_categories
CDiscover(kind) ==
    /\ UNCHANGED notCatalogVars
    /\ c_pc = "discover"
    /\ LET category == categories[c_i]
           info == GetCategoryInfo(c_impl, FetchPageResult(kind) = "html", InfoDivs(category))
           discovered == IF Valid(info)
                         THEN discovered_categories @@
                              (category :> [pages |-> info.pages, products |-> info.products])
                         ELSE discovered_categories
       IN IF FetchPageResult(kind) = "raise"
          THEN /\ c_pc' = "raised"
               /\ UNCHANGED <<c_i, c_info, discovered_categories>>
          ELSE /\ c_info' = (category :> info) @@ c_info
               /\ discovered_categories' = discovered
               /\ IF c_i < Len(categories)
                  THEN c_i' = c_i + 1 /\ UNCHANGED c_pc
                  ELSE EnhancedLoop(discovered, 1)
    /\ UNCHANGED <<c_impl, categories, c_task, c_pages_html, c_k, c_links,
                   category_results, c_report>>

\* scrape_all_categories_enhanced calls scrape_category_pages_enhanced
CScrape ==
    /\ UNCHANGED notCatalogVars
    /\ c_pc = "scrape"
    /\ StartPages(categories[c_i], discovered_categories[categories[c_i]].pages)
    /\ UNCHANGED <<c_impl, categories, c_i, c_info, discovered_categories,
                   category_results, c_report>>

\* the page fetches of the category at hand that have not finished
PendingPages ==
    IF c_pc = "fetch"
    THEN {page_num \in DOMAIN c_task[categories[c_i]] :
             c_task[categories[c_i]][page_num] = "pending"}
    ELSE {}

\* as_completed hands over the next finished fetch: `if html: append`
CPageCompletes(page_num, kind) ==
    /\ UNCHANGED notCatalogVars
    /\ c_pc = "fetch"
    /\ LET category == categories[c_i]
           tasks == c_task[category]
           result == FetchPageResult(kind)
           done == [tasks EXCEPT ![page_num] = IF result = "html" THEN "ok" ELSE "failed"]
       IN /\ page_num \in DOMAIN tasks
          /\ tasks[page_num] = "pending"
          /\ IF result = "raise"
             THEN /\ c_pc' = "raised"
                  /\ UNCHANGED <<c_task, c_pages_html>>
             ELSE /\ c_task' = [c_task EXCEPT ![category] = done]
                  /\ c_pages_html' = IF result = "html"
                                     THEN Append(c_pages_html, CategoryPage(category, page_num))
                                     ELSE c_pages_html
                  /\ c_pc' = IF \E o \in DOMAIN done : done[o] = "pending"
                             THEN "fetch" ELSE "extract"
    /\ UNCHANGED <<c_impl, categories, c_i, c_info, discovered_categories, c_k, c_links,
                   category_results, c_report>>

\* one round of `for html in pages_html`
CExtractPage ==
    /\ UNCHANGED notCatalogVars
    /\ c_pc = "extract"
    /\ c_k <= Len(c_pages_html)
    /\ c_links' = Update(c_links, ExtractLinks(c_impl, c_pages_html[c_k], BaseUrl))
    /\ c_k' = c_k + 1
    /\ UNCHANGED <<c_impl, categories, c_pc, c_i, c_info, discovered_categories, c_task,
                   c_pages_html, category_results, c_report>>

\* scrape_category_pages returns; the caller stores and validates the set
CCategoryReturns ==
    /\ UNCHANGED notCatalogVars
    /\ c_pc = "extract"
    /\ c_k > Len(c_pages_html)
    /\ LET category == categories[c_i]
           expected == IF c_impl = "enhanced"
                       THEN discovered_categories[category].products
                       ELSE c_info[category].products
       IN /\ category_results' = (category :> c_links) @@ category_results
          /\ c_report' = (category :> Report(c_impl, Cardinality(c_links), expected)) @@ c_report
    /\ IF c_impl = "enhanced"
       THEN EnhancedLoop(discovered_categories, c_i + 1)
       ELSE OriginalLoop(c_i + 1)
    /\ UNCHANGED <<c_impl, categories, c_info, discovered_categories, c_task,
                   c_pages_html, c_k, c_links>>

CatalogNext ==
    \/ \E kind \in FetchKinds : CGetInfo(kind)
    \/ \E kind \in FetchKinds : CDiscover(kind)
    \/ CScrape
    \/ \E page_num \in PendingPages :
          \E kind \in FetchKinds : CPageCompletes(page_num, kind)
    \/ CExtractPage
    \/ CCategoryReturns

(***************************************************************************)
(* The validation of one category in scrape_all_categories_enhanced, for   *)
(* any expected count and any number of links found.  The rate is a double *)
(* in the code; for counts below three million the comparison of           *)
(* actual / expected * 100 with 80 has the value of the exact one, which   *)
(* is what LowExtractionRate computes.                                     *)
(***************************************************************************)
MaxExpected == 10
MaxActual == 12

\* the counts of the extraction-rate scenario of the documentation
ScenarioExpected == {794}
ScenarioActuals == {600, 650}

ValidationInit ==
    /\ expected_products \in (0..MaxExpected) \cup ScenarioExpected
    /\ actual_products \in (0..MaxActual) \cup ScenarioActuals
    /\ v_pc = "scraped"
    /\ v_stored = -1
    /\ v_flag = ""

ValidationIdle ==
    /\ expected_products = 0
    /\ actual_products = 0
    /\ v_pc = "validated"
    /\ v_stored = -1
    /\ v_flag = ""

\* category_results[category] = product_links
VStore ==
    /\ UNCHANGED notValidationVars
    /\ v_pc = "scraped"
    /\ v_stored' = actual_products
    /\ v_pc' = "stored"
    /\ UNCHANGED <<expected_products, actual_products, v_flag>>

\* the rate and the line printed for it
VValidate ==
    /\ UNCHANGED notValidationVars
    /\ v_pc = "stored"
    /\ v_flag' = IF LowExtractionRate(actual_products, expected_products)
                 THEN "low" ELSE "good"
    /\ v_pc' = "validated"
    /\ UNCHANGED <<expected_products, actual_products, v_stored>>

ValidationNext == VStore \/ VValidate

(***************************************************************************)
(* main() of src/main.py: the BigQuery phase, the scraping phase, the      *)
(* summary, and the finally block that asks the Lambda to stop the         *)
(* instance.  A table of records is its number of records, -1 for None.    *)
(***************************************************************************)
PharmacyTables ==
    <<"Historico_Vendas_Farma_Ponte", "Historico_Vendas_Sao_Joao",
      "Historico_Vendas_Sao_Paulo", "Historico_Vendas_Vera_Cruz">>

BqFilename == "bigquery_extraction_results.csv"
ScrapingFilename == "extraction_results.csv"

Filename(phase) == IF phase = "bq" THEN BqFilename ELSE ScrapingFilename

\* s3_key = f"data/{filename}"
S3Key(filename) == "data/" \o filename

\* what a query of one table, or one scrape(), can end in
QueryOutcomes == {"raise", "empty", "data"}
VeraCruzOutcomes == {"raise", "empty", "data"}
\* FarmaponteScraper.scrape raises on an empty table (its statistics)
FarmaponteOutcomes == {"raise", "data"}

\* upload_file_to_s3 returns True or False; creating its client is outside
\* its try block and may raise
UploadOutcomes == {"True", "False", "raise"}

Records(outcome) == IF outcome = "data" THEN 1 ELSE 0

\* a handler that lets every exception through
PhaseCatchesNothing(phase) == FALSE

\* `except Exception as e:` of each phase
PhaseCatches(phase) == TRUE

\* the stop request is sent only on the way out of a normal return
RunsOnReturnOnly(exc) == exc = ""

\* `finally:` runs on a return and on an exception alike
RunsFinally(exc) == TRUE

MainInit ==
    /\ m_pc = "query"
    /\ m_table = 1
    /\ m_cur = "bq"
    /\ df_bq = -1
    /\ df_scraping = -1
    /\ bigquery_success = FALSE
    /\ scraping_success = FALSE
    /\ m_phase = [bq |-> "", scraping |-> ""]
    /\ m_exc = ""
    /\ m_local = {}
    /\ m_s3 = {}
    /\ m_upload = [bq |-> "", scraping |-> ""]
    /\ m_lambda = 0

MainIdle ==
    /\ m_pc = "returned"
    /\ m_table = 1
    /\ m_cur = "bq"
    /\ df_bq = -1
    /\ df_scraping = -1
    /\ bigquery_success = FALSE
    /\ scraping_success = FALSE
    /\ m_phase = [bq |-> "", scraping |-> ""]
    /\ m_exc = ""
    /\ m_local = {}
    /\ m_s3 = {}
    /\ m_upload = [bq |-> "", scraping |-> ""]
    /\ m_lambda = 0

\* where main() goes on after a phase: the scraping phase, or the summary
AfterPhase(phase) == IF phase = "bq" THEN "scrape" ELSE "summary"

\* a phase ends: its SUCCESS, "returned no data" or FAILED line is logged
PhaseEnds(phase, how) ==
    /\ m_phase' = [m_phase EXCEPT ![phase] = how]
    /\ m_pc' = AfterPhase(phase)
    /\ m_exc' = m_exc

\* an exception inside a phase: its handler logs it, or it reaches the
\* outer `except Exception: raise` and the finally block
PhaseRaises(phase) ==
    IF PhaseCatches(phase)
    THEN PhaseEnds(phase, "failed")
    ELSE /\ m_exc' = "Exception"
         /\ m_pc' = "finally"
         /\ m_phase' = m_phase

\* one round of `for name, table_id in pharmacy_tables.items()`, and after
\* the last one `if df_bq is not None and not df_bq.empty`
BqQuery(outcome) ==
    /\ UNCHANGED notMainVars
    /\ m_pc = "query"
    /\ IF outcome = "raise"
       THEN /\ PhaseRaises("bq")
            /\ UNCHANGED <<m_table, df_bq>>
       ELSE /\ df_bq' = (IF df_bq = -1 THEN 0 ELSE df_bq) + Records(outcome)
            /\ IF m_table < Len(PharmacyTables)
               THEN /\ m_table' = m_table + 1
                    /\ UNCHANGED <<m_pc, m_phase, m_exc>>
               ELSE /\ UNCHANGED m_table
                    /\ IF df_bq' > 0
                       THEN m_pc' = "csv" /\ UNCHANGED <<m_phase, m_exc>>
                       ELSE PhaseEnds("bq", "nodata")
    /\ UNCHANGED <<m_cur, df_scraping, bigquery_success, scraping_success,
                   m_local, m_s3, m_upload, m_lambda>>

\* both scrape() tasks, gathered with return_exceptions=True; an exception
\* becomes None, and the tables that are neither None nor empty are joined
Scrape(veracruz, farmaponte) ==
    /\ UNCHANGED notMainVars
    /\ m_pc = "scrape"
    /\ m_cur' = "scraping"
    /\ IF Records(veracruz) + Records(farmaponte) > 0
       THEN /\ df_scraping' = Records(veracruz) + Records(farmaponte)
            /\ m_pc' = "csv"
            /\ UNCHANGED <<m_phase, m_exc>>
       ELSE /\ UNCHANGED df_scraping
            /\ PhaseEnds("scraping", "nodata")
    /\ UNCHANGED <<m_table, df_bq, bigquery_success, scraping_success,
                   m_local, m_s3, m_upload, m_lambda>>

\* df.to_csv(filename, ...)
ToCsv(ok) ==
    /\ UNCHANGED notMainVars
    /\ m_pc = "csv"
    /\ IF ok
       THEN /\ m_local' = m_local \cup {Filename(m_cur)}
            /\ m_pc' = "upload"
            /\ UNCHANGED <<m_phase, m_exc>>
       ELSE /\ UNCHANGED m_local
            /\ PhaseRaises(m_cur)
    /\ UNCHANGED <<m_table, m_cur, df_bq, df_scraping, bigquery_success,
                   scraping_success, m_s3, m_upload, m_lambda>>

\* upload_file_to_s3(...): its return value is not looked at
Upload(outcome) ==
    /\ UNCHANGED notMainVars
    /\ m_pc = "upload"
    /\ m_upload' = [m_upload EXCEPT ![m_cur] = outcome]
    /\ m_s3' = IF outcome = "True" THEN m_s3 \cup {S3Key(Filename(m_cur))} ELSE m_s3
    /\ IF outcome = "raise"
       THEN PhaseRaises(m_cur)
       ELSE m_pc' = "remove" /\ UNCHANGED <<m_phase, m_exc>>
    /\ UNCHANGED <<m_table, m_cur, df_bq, df_scraping, bigquery_success,
                   scraping_success, m_local, m_lambda>>

\* os.remove(filename), then the success flag of the phase
Remove(ok) ==
    /\ UNCHANGED notMainVars
    /\ m_pc = "remove"
    /\ IF ok
       THEN /\ m_local' = m_local \ {Filename(m_cur)}
            /\ bigquery_success' = (bigquery_success \/ m_cur = "bq")
            /\ scraping_success' = (scraping_success \/ m_cur = "scraping")
            /\ PhaseEnds(m_cur, "success")
       ELSE /\ UNCHANGED <<m_local, bigquery_success, scraping_success>>
            /\ PhaseRaises(m_cur)
    /\ UNCHANGED <<m_table, m_cur, df_bq, df_scraping, m_s3, m_upload, m_lambda>>

\* the summary: ValueError when neither phase succeeded, else the return
Summary ==
    /\ UNCHANGED notMainVars
    /\ m_pc = "summary"
    /\ m_exc' = IF ~bigquery_success /\ ~scraping_success THEN "ValueError" ELSE ""
    /\ m_pc' = "finally"
    /\ UNCHANGED <<m_table, m_cur, df_bq, df_scraping, bigquery_success,
                   scraping_success, m_phase, m_local, m_s3, m_upload, m_lambda>>

\* the finally block calls invoke_stop_lambda(), which raises nothing;
\* then the return value or the exception leaves main()
Finally ==
    /\ UNCHANGED notMainVars
    /\ m_pc = "finally"
    /\ m_lambda' = IF RunsFinally(m_exc) THEN m_lambda + 1 ELSE m_lambda
    /\ m_pc' = IF m_exc = "" THEN "returned" ELSE "raised"
    /\ UNCHANGED <<m_table, m_cur, df_bq, df_scraping, bigquery_success,
                   scraping_success, m_phase, m_exc, m_local, m_s3, m_upload>>

MainNext ==
    \/ \E outcome \in QueryOutcomes : BqQuery(outcome)
    \/ \E veracruz \in VeraCruzOutcomes, farmaponte \in FarmaponteOutcomes :
          Scrape(veracruz, farmaponte)
    \/ \E ok \in BOOLEAN : ToCsv(ok)
    \/ \E outcome \in UploadOutcomes : Upload(outcome)
    \/ \E ok \in BOOLEAN : Remove(ok)
    \/ Summary
    \/ Finally

(***************************************************************************)
(* The two worker pools of scrape(): the page pool of scrape() and, inside *)
(* each page worker, the product pool of processar_pagina_completa /       *)
(* processar_pagina.  Workers of a pool are interchangeable, so the page   *)
(* workers at work are kept as a bag of their states.  A page worker's     *)
(* state is where it is, whether its product pool still has a product      *)
(* waiting in its queue, and how many of its product workers are at work.  *)
(***************************************************************************)
\* pages submitted to the page pool
PoolPages == 6

PoolImpls == {"farmaponte", "veracruz"}

\* ThreadPoolExecutor(max_workers=...) of each level
MaxWorkers(impl, level) ==
    IF level = "pages" THEN PageWorkers ELSE ProductWorkers

\* a pool that starts a worker for every task submitted
AlwaysFreeWorker(at_work, max_workers) == TRUE

\* ThreadPoolExecutor runs a queued task only on one of its max_workers
\* threads, each running one task at a time
HasFreeWorker(at_work, max_workers) == at_work < max_workers

FetchingPage == [st |-> "fetching", waiting |-> FALSE, at_work |-> 0]

One(pg) == SetToBag({pg})

PoolsInit ==
    /\ pool_impl \in PoolImpls
    /\ page_queue = PoolPages
    /\ page_workers = EmptyBag

PoolsIdle ==
    /\ pool_impl = "farmaponte"
    /\ page_queue = 0
    /\ page_workers = EmptyBag

\* a thread of the page pool takes the next page off the queue
PoolPageStart ==
    /\ UNCHANGED notPoolsVars
    /\ page_queue > 0
    /\ HasFreeWorker(BagCardinality(page_workers), MaxWorkers(pool_impl, "pages"))
    /\ page_queue' = page_queue - 1
    /\ page_workers' = page_workers (+) One(FetchingPage)
    /\ UNCHANGED pool_impl

\* `response = self.baixar_url(url_pagina)`: no response, `return []`;
\* otherwise every div.li of the page is submitted to a new product pool
PoolPageFetched(ok, has_products) ==
    /\ UNCHANGED notPoolsVars
    /\ BagIn(FetchingPage, page_workers)
    /\ page_workers' =
          IF ok
          THEN (page_workers (-) One(FetchingPage)) (+)
               One([st |-> "products", waiting |-> has_products, at_work |-> 0])
          ELSE page_workers (-) One(FetchingPage)
    /\ UNCHANGED <<pool_impl, page_queue>>

\* a thread of a page's product pool takes the next product off its queue;
\* `more` tells whether another product is left waiting behind it
PoolProductStart(pg, more) ==
    /\ UNCHANGED notPoolsVars
    /\ BagIn(pg, page_workers)
    /\ pg.st = "products"
    /\ pg.waiting
    /\ HasFreeWorker(pg.at_work, MaxWorkers(pool_impl, "products"))
    /\ page_workers' = (page_workers (-) One(pg)) (+)
          One([pg EXCEPT !.waiting = more, !.at_work = @ + 1])
    /\ UNCHANGED <<pool_impl, page_queue>>

\* processar_produto_rapido / processar_produto ends, with a record or an
\* exception
PoolProductEnds(pg) ==
    /\ UNCHANGED notPoolsVars
    /\ BagIn(pg, page_workers)
    /\ pg.at_work > 0
    /\ page_workers' = (page_workers (-) One(pg)) (+)
          One([pg EXCEPT !.at_work = @ - 1])
    /\ UNCHANGED <<pool_impl, page_queue>>

\* the `with ThreadPoolExecutor` block of the page is left once every
\* product submitted has run, and the page's task ends
PoolPageReturns(pg) ==
    /\ UNCHANGED notPoolsVars
    /\ BagIn(pg, page_workers)
    /\ pg.st = "products"
    /\ ~pg.waiting
    /\ pg.at_work = 0
    /\ page_workers' = page_workers (-) One(pg)
    /\ UNCHANGED <<pool_impl, page_queue>>

PoolsNext ==
    \/ PoolPageStart
    \/ \E ok \in BOOLEAN, has_products \in BOOLEAN : PoolPageFetched(ok, has_products)
    \/ \E pg \in BagToSet(page_workers), more \in BOOLEAN : PoolProductStart(pg, more)
    \/ \E pg \in BagToSet(page_workers) : PoolProductEnds(pg)
    \/ \E pg \in BagToSet(page_workers) : PoolPageReturns(pg)

\* product workers at work over the page workers in S
RECURSIVE AtWorkIn(_)
AtWorkIn(S) ==
    IF S = {} THEN 0
    ELSE LET pg == CHOOSE x \in S : TRUE
         IN CopiesIn(pg, page_workers) * pg.at_work + AtWorkIn(S \ {pg})

\* product-detail fetches in flight over the whole scraper
InFlight == AtWorkIn(BagToSet(page_workers))

(***************************************************************************)
(* The prices of a product record of the thread-pool scrapers.  A price is *)
(* kept in centavos; an optional price is the empty set for None and the   *)
(* singleton of its value otherwise.                                       *)
(***************************************************************************)
None == {}
Some(v) == {v}

\* str.replace(old, new)
Replace(s, old, new) == JoinWords(SplitOn(s, old), new)

\* the digits after the decimal point, as centavos
Hundredths(frac) ==
    IF frac = "" THEN 0
    ELSE IF Len(frac) = 1 THEN 10 * IntOf(frac)
    ELSE IntOf(SubSeq(frac, 1, 2))

\* float(s) of a plain decimal numeral, None where float raises ValueError
FloatOf(s) ==
    LET parts == SplitOn(s, ".")
    IN IF Len(parts) = 1 /\ IsDigitStr(parts[1])
       THEN Some(100 * IntOf(parts[1]))
       ELSE IF /\ Len(parts) = 2
               /\ parts[1] \o parts[2] # ""
               /\ IsDigitStr(parts[1] \o parts[2])
       THEN Some(100 * DigitsValue(parts[1], 0) + Hundredths(parts[2]))
       ELSE None

\* VeraCruzScraper.limpar_preco
LimparPrecoVeraCruz(preco_str) ==
    IF preco_str = "" THEN None
    ELSE FloatOf(Replace(Replace(Strip(Replace(preco_str, "R$", "")), ".", ""),
                         ",", "."))

\* (?:\.\d{3})* matched from position i: the position after the last group
RECURSIVE SkipThousands(_, _)
SkipThousands(s, i) ==
    IF /\ i + 3 <= Len(s)
       /\ SubSeq(s, i, i) = "."
       /\ IsDigitStr(SubSeq(s, i + 1, i + 3))
    THEN SkipThousands(s, i + 4)
    ELSE i

\* re.search(r'(\d{1,3}(?:\.\d{3})*(?:,\d{2})?)', s): the group, "" if none
PriceMatch(s) ==
    LET starts == {i \in 1..Len(s) : IsDigit(SubSeq(s, i, i))}
    IN IF starts = {} THEN ""
       ELSE LET i == CHOOSE k \in starts : \A j \in starts : k <= j
                a == Min(SkipDigits(s, i), i + 3)
                b == SkipThousands(s, a)
                c == IF /\ b + 2 <= Len(s)
                        /\ SubSeq(s, b, b) = ","
                        /\ IsDigitStr(SubSeq(s, b + 1, b + 2))
                     THEN b + 3 ELSE b
            IN SubSeq(s, i, c - 1)

\* FarmaponteScraper.limpar_preco
LimparPrecoFarmaponte(preco_str) ==
    IF preco_str = "" THEN None
    ELSE LET match == PriceMatch(Replace(preco_str, "R$", ""))
         IN IF match = "" THEN None
            ELSE FloatOf(Replace(Replace(match, ".", ""), ",", "."))

limpar_preco(impl, preco_str) ==
    IF impl = "farmaponte" THEN LimparPrecoFarmaponte(preco_str)
    ELSE LimparPrecoVeraCruz(preco_str)

\* truth value of an optional float: None and 0.0 are false
Truth(price) == price # None /\ price # Some(0)

\* `round(unit_price - other, 2) if unit_price and other else None`
Desconto(unit_price, other) ==
    IF Truth(unit_price) /\ Truth(other)
    THEN {u - o : u \in unit_price, o \in other}
    ELSE None

\* the price texts found on a product: "" when the element is absent
PriceTexts ==
    {"", "R$ 0,00", "R$ 7,50", "R$ 10,00", "R$ 1.234,56", "Consulte"}

NoRecord == [Preco_unitario |-> None, Preco_com_desconto |-> None,
             Preco_pix |-> None, Desconto |-> None, Desconto_com_pix |-> None]

PricesInit ==
    /\ p_impl \in {"farmaponte", "veracruz"}
    /\ preco \in PriceTexts
    /\ precodesconto \in PriceTexts
    /\ precopix \in PriceTexts
    /\ p_pc = "start"
    /\ p_record = NoRecord

PricesIdle ==
    /\ p_impl = "farmaponte"
    /\ preco = ""
    /\ precodesconto = ""
    /\ precopix = ""
    /\ p_pc = "idle"
    /\ p_record = NoRecord

\* the price fields of the record processar_produto_rapido /
\* processar_produto returns
ProcessarProduto ==
    /\ UNCHANGED notPricesVars
    /\ p_pc = "start"
    /\ LET unit_price == limpar_preco(p_impl, preco)
           discount_price == limpar_preco(p_impl, precodesconto)
           pix_price == limpar_preco(p_impl, precopix)
       IN p_record' = [Preco_unitario |-> unit_price,
                       Preco_com_desconto |-> discount_price,
                       Preco_pix |-> pix_price,
                       Desconto |-> Desconto(unit_price, discount_price),
                       Desconto_com_pix |-> Desconto(unit_price, pix_price)]
    /\ p_pc' = "returned"
    /\ UNCHANGED <<p_impl, preco, precodesconto, precopix>>

PricesNext == ProcessarProduto

(***************************************************************************)
(* The top-level runs: main() of extracao_farmaponte.py, main_enhanced()   *)
(* of enhanced_scraper.py and run_full_scraper().  Links and records are   *)
(* counted.  The operator's interrupt reaches the run as KeyboardInterrupt *)
(* raised in the coroutine, or as the cancellation of the coroutine by     *)
(* asyncio.run, depending on the interpreter and on what was running.      *)
(***************************************************************************)
RunCategories == 2
RunLinksPerCategory == 2

RunImpls == {"main", "main_enhanced", "run_full_scraper"}

InterruptKinds == {"KeyboardInterrupt", "CancelledError"}

\* nothing written: no file
NoFile == -1

RunInit ==
    /\ run_impl \in RunImpls
    /\ run_pc = "links"
    /\ run_cat = 0
    /\ run_links = 0
    /\ run_results = 0
    /\ links_file = NoFile
    /\ run_todo = 0
    /\ run_products = 0
    /\ data_file = NoFile
    /\ run_interrupt = ""
    /\ run_returned = "nothing"

RunIdle ==
    /\ run_impl = "main"
    /\ run_pc = "idle"
    /\ run_cat = 0
    /\ run_links = 0
    /\ run_results = 0
    /\ links_file = NoFile
    /\ run_todo = 0
    /\ run_products = 0
    /\ data_file = NoFile
    /\ run_interrupt = ""
    /\ run_returned = "nothing"

\* one round of the category loop inside scrape_all_categories(_enhanced):
\* the links of one more category are in its category_results
RunCategory(n) ==
    /\ UNCHANGED notRunVars
    /\ run_pc = "links"
    /\ run_cat < RunCategories
    /\ run_cat' = run_cat + 1
    /\ run_links' = run_links + n
    /\ UNCHANGED <<run_impl, run_pc, run_results, links_file, run_todo, run_products,
                   data_file, run_interrupt, run_returned>>

\* `category_results = await scraper.scrape_all_categories()`;
\* run_full_scraper returns when no link was found
RunLinksReturn ==
    /\ UNCHANGED notRunVars
    /\ run_pc = "links"
    /\ run_cat = RunCategories
    /\ run_results' = run_links
    /\ IF run_impl = "run_full_scraper" /\ run_links = 0
       THEN run_pc' = "returned" /\ run_returned' = "None"
       ELSE run_pc' = "save_links" /\ UNCHANGED run_returned
    /\ UNCHANGED <<run_impl, run_cat, run_links, links_file, run_todo, run_products,
                   data_file, run_interrupt>>

\* `links_file = scraper.save_category_links(category_results)`, which
\* raises what open or json.dump raises; then the list of product URLs,
\* which run_full_scraper cuts to `limit` when the operator asks for it
RunSaveLinks(ok, limit) ==
    /\ UNCHANGED notRunVars
    /\ run_pc = "save_links"
    /\ IF ok
       THEN /\ links_file' = run_results
            /\ run_todo' = IF run_impl = "run_full_scraper" THEN Min(limit, run_results)
                           ELSE run_results
            /\ run_pc' = "details"
            /\ UNCHANGED run_returned
       ELSE /\ run_pc' = "raised"
            /\ run_returned' = "Exception"
            /\ UNCHANGED <<links_file, run_todo>>
    /\ UNCHANGED <<run_impl, run_cat, run_links, run_results, run_products, data_file,
                   run_interrupt>>

\* one round of the loop of scrape_product_details: a record appended to
\* its products_data
RunRecord ==
    /\ UNCHANGED notRunVars
    /\ run_pc = "details"
    /\ run_products < run_todo
    /\ run_products' = run_products + 1
    /\ UNCHANGED <<run_impl, run_pc, run_cat, run_links, run_results, links_file,
                   run_todo, data_file, run_interrupt, run_returned>>

\* `products_data = await scraper.scrape_product_details(product_urls_list)`
RunDetailsReturn ==
    /\ UNCHANGED notRunVars
    /\ run_pc = "details"
    /\ run_products = run_todo
    /\ run_pc' = "save"
    /\ UNCHANGED <<run_impl, run_cat, run_links, run_results, links_file, run_todo,
                   run_products, data_file, run_interrupt, run_returned>>

\* save_to_json / save_to_csv and the summary; the run returns None
RunSave(ok) ==
    /\ UNCHANGED notRunVars
    /\ run_pc = "save"
    /\ IF ok
       THEN /\ data_file' = run_products
            /\ run_pc' = "returned"
            /\ run_returned' = "None"
       ELSE /\ run_pc' = "raised"
            /\ run_returned' = "Exception"
            /\ UNCHANGED data_file
    /\ UNCHANGED <<run_impl, run_cat, run_links, run_results, links_file, run_todo,
                   run_products, run_interrupt>>

\* the operator's interrupt: `except KeyboardInterrupt` prints a line and
\* the run returns None; a cancellation passes both handlers and leaves
\* the run.  Either way the locals of the coroutines are dropped.
RunInterrupt(kind) ==
    /\ UNCHANGED notRunVars
    /\ run_pc \in {"links", "save_links", "details", "save"}
    /\ run_interrupt' = kind
    /\ run_pc' = "interrupted"
    /\ run_returned' = IF kind = "KeyboardInterrupt" THEN "None" ELSE kind
    /\ UNCHANGED <<run_impl, run_cat, run_links, run_results, links_file, run_todo,
                   run_products, data_file>>

RunNext ==
    \/ \E n \in 0..RunLinksPerCategory : RunCategory(n)
    \/ RunLinksReturn
    \/ \E ok \in BOOLEAN, limit \in 1..(RunCategories * RunLinksPerCategory) :
          RunSaveLinks(ok, limit)
    \/ RunRecord
    \/ RunDetailsReturn
    \/ \E ok \in BOOLEAN : RunSave(ok)
    \/ \E kind \in InterruptKinds : RunInterrupt(kind)

(***************************************************************************)
(* The waits of the fetchers: the rate limiter of FarmaponteScraper's      *)
(* baixar_url under request_lock, and the sleeps of the three fetchers     *)
(* after a failed attempt.  Times are in tenths of a second.               *)
(***************************************************************************)
TimedCalls == 2

\* 2.0 s, the ceiling of the adaptive delay
MaxDelay == 20

\* 10 s, the ceiling of the backoff after a 429
BackoffCap == 100

Max(a, b) == IF a > b THEN a ELSE b

RECURSIVE Pow2(_)
Pow2(n) == IF n = 0 THEN 1 ELSE 2 * Pow2(n - 1)

\* delay = min(0.5 + consecutive_errors * 0.2, 2.0) with errors, else 0.1
Delay(errors) == IF errors > 0 THEN Min(5 + errors * 2, MaxDelay) ELSE 1

\* the sleep after a 429 at attempt i: time.sleep(min(2 ** i, 10)) in
\* baixar_url, asyncio.sleep(2 ** attempt) in fetch_page, none in
\* VeraCruzScraper.baixar_url
Backoff429(impl, i) ==
    IF impl = "farmaponte" THEN Min(Pow2(i) * 10, BackoffCap)
    ELSE IF impl = "fetch_page" THEN Pow2(i) * 10
    ELSE 0

\* time.sleep(random.uniform(0.5, 2))
UniformSleeps == {5, 12, 20}

\* the sleeps an attempt i that ended in `kind` can be followed by
Backoffs(impl, kind, i, retries) ==
    IF kind = "429" THEN {Backoff429(impl, i)}
    ELSE IF ~IsException(kind) THEN {0}
    ELSE IF impl = "farmaponte" THEN {5 * (i + 1)}
    ELSE IF impl = "veracruz" THEN UniformSleeps
    ELSE IF i < retries - 1 THEN {Pow2(i) * 10}
    ELSE {0}

\* the attempt budgets a fetcher is run with: tentativas=2 or a single
\* attempt, range(3), and retries=3 or a larger one
RetryBudgets(impl) ==
    IF impl = "farmaponte" THEN {1, FarmaponteTentativas}
    ELSE IF impl = "veracruz" THEN {VeraCruzTentativas}
    ELSE {FetchPageRetries, FetchPageRetries + 2}

\* delay_between_requests: 0.5 s and 2.0 s are the defaults of the two
\* asynchronous scrapers
RequestDelays(impl) == IF impl = "fetch_page" THEN {5, 20} ELSE {0}

\* how long a GET can take before its outcome is there
GetDurations(impl) == IF impl = "farmaponte" THEN {1, 8} ELSE {1}

AllDurations == UNION {GetDurations(impl) : impl \in FetchImpls}

AllBudgets == UNION {RetryBudgets(impl) : impl \in FetchImpls}

TimedKinds == {"200", "429", "500", "timeout", "neterror"}

AllBackoffs ==
    UNION {Backoffs(impl, kind, i, retries) :
              impl \in FetchImpls, kind \in TimedKinds, i \in 0..4, retries \in AllBudgets}

\* the branches of baixar_url that add one to consecutive_errors
Increments429Only(kind) == kind = "429"

Increments(kind) == kind # "200"

IdleTimedCall ==
    [pc |-> "idle", url |-> "", i |-> 0, kind |-> "", delay |-> 0, wake |-> 0,
     tmp |-> 0, backoff |-> 0, slept |-> 0, result |-> ""]

\* the call is over: its locals are gone, `result` is what it returned
Returns(c, result) == [IdleTimedCall EXCEPT !.pc = "done", !.url = c.url, !.result = result]

\* the calls of a run: a sequence of calls of baixar_url on one thread,
\* one call for each of several threads, and one call of the fetchers
\* that keep nothing from one call to the next
CallsToMake(impl, threads) ==
    IF impl # "farmaponte" THEN 1
    ELSE IF threads = 1 THEN TimedCalls
    ELSE threads

TimedInit ==
    /\ t_impl \in FetchImpls
    /\ t_retries \in RetryBudgets(t_impl)
    /\ t_threads \in (IF t_impl = "farmaponte" /\ t_retries = 1 THEN {1, 2} ELSE {1})
    /\ delay_between_requests \in RequestDelays(t_impl)
    /\ now = MaxDelay + 1
    /\ last_request_time = 0
    /\ t_consecutive_errors = 0
    /\ request_lock = 0
    /\ t_url_cache = {}
    /\ t_call = [t \in Callers |-> IdleTimedCall]
    /\ t_calls_left = CallsToMake(t_impl, t_threads)
    /\ t_obs = [failed |-> 0, last_start |-> -1, gap |-> 0, delay |-> 0]

TimedIdle ==
    /\ t_impl = "farmaponte"
    /\ t_threads = 1
    /\ t_retries = 0
    /\ delay_between_requests = 0
    /\ now = 0
    /\ last_request_time = 0
    /\ t_consecutive_errors = 0
    /\ request_lock = 0
    /\ t_url_cache = {}
    /\ t_call = [t \in Callers |-> IdleTimedCall]
    /\ t_calls_left = 0
    /\ t_obs = [failed |-> 0, last_start |-> -1, gap |-> 0, delay |-> 0]

\* thread t calls baixar_url(u) / fetch_page(u)
TCall(t, u) ==
    /\ UNCHANGED notTimedVars
    /\ t <= t_threads
    /\ t_call[t].pc \in {"idle", "done"}
    /\ t_calls_left > 0
    /\ t_calls_left' = t_calls_left - 1
    /\ t_call' = [t_call EXCEPT ![t] =
          [IdleTimedCall EXCEPT !.url = u,
              !.pc = IF t_impl = "farmaponte" THEN "cache_check" ELSE "attempt"]]
    /\ UNCHANGED <<t_impl, t_threads, t_retries, delay_between_requests, now,
                   last_request_time, t_consecutive_errors, request_lock,
                   t_url_cache, t_obs>>

\* `with self.cache_lock: if url in self.url_cache: return ...`
TCacheCheck(t) ==
    /\ UNCHANGED notTimedVars
    /\ t_call[t].pc = "cache_check"
    /\ t_call' = [t_call EXCEPT ![t] =
          IF t_call[t].url \in t_url_cache
          THEN Returns(t_call[t], "cached")
          ELSE [@ EXCEPT !.pc = "attempt"]]
    /\ UNCHANGED <<t_impl, t_threads, t_retries, delay_between_requests, now,
                   last_request_time, t_consecutive_errors, request_lock,
                   t_url_cache, t_calls_left, t_obs>>

\* the head of one round of the loop.  baixar_url of FarmaponteScraper
\* takes request_lock, computes the delay and either sleeps with the lock
\* held or writes the watermark and leaves the lock; fetch_page sleeps
\* delay_between_requests; VeraCruzScraper goes straight to the GET
TAttempt(t) ==
    /\ UNCHANGED notTimedVars
    /\ t_call[t].pc = "attempt"
    /\ IF t_impl = "farmaponte"
       THEN /\ request_lock = 0
            /\ LET time_since_last == now - last_request_time
                   delay == Delay(t_consecutive_errors)
               IN IF time_since_last < delay
                  THEN /\ request_lock' = t
                       /\ t_call' = [t_call EXCEPT ![t] =
                             [@ EXCEPT !.pc = "sleep", !.delay = delay,
                                       !.wake = now + (delay - time_since_last),
                                       !.slept = @ + (delay - time_since_last)]]
                       /\ UNCHANGED last_request_time
                  ELSE /\ last_request_time' = now
                       /\ t_call' = [t_call EXCEPT ![t] =
                             [@ EXCEPT !.pc = "get", !.delay = delay]]
                       /\ UNCHANGED request_lock
       ELSE /\ t_call' = [t_call EXCEPT ![t] =
                  IF t_impl = "fetch_page"
                  THEN [@ EXCEPT !.pc = "sleep", !.wake = now + delay_between_requests,
                                 !.slept = @ + delay_between_requests]
                  ELSE [@ EXCEPT !.pc = "get"]]
            /\ UNCHANGED <<request_lock, last_request_time>>
    /\ UNCHANGED <<t_impl, t_threads, t_retries, delay_between_requests, now,
                   t_consecutive_errors, t_url_cache, t_calls_left, t_obs>>

\* the sleep before the request is over: `self.last_request_time =
\* time.time()` and the end of `with self.request_lock`
TWake(t) ==
    /\ UNCHANGED notTimedVars
    /\ t_call[t].pc = "sleep"
    /\ now' = Max(now, t_call[t].wake)
    /\ IF t_impl = "farmaponte"
       THEN last_request_time' = now' /\ request_lock' = 0
       ELSE UNCHANGED <<last_request_time, request_lock>>
    /\ t_call' = [t_call EXCEPT ![t].pc = "get"]
    /\ UNCHANGED <<t_impl, t_threads, t_retries, delay_between_requests,
                   t_consecutive_errors, t_url_cache, t_calls_left, t_obs>>

\* session.get(url) sends the request
TStart(t) ==
    /\ UNCHANGED notTimedVars
    /\ t_call[t].pc = "get"
    /\ t_call' = [t_call EXCEPT ![t].pc = "wait"]
    /\ t_obs' = [t_obs EXCEPT !.last_start = now,
                              !.gap = IF t_obs.last_start = -1 THEN 0
                                      ELSE now - t_obs.last_start,
                              !.delay = IF t_obs.last_start = -1 THEN 0
                                        ELSE t_call[t].delay]
    /\ UNCHANGED <<t_impl, t_threads, t_retries, delay_between_requests, now,
                   last_request_time, t_consecutive_errors, request_lock,
                   t_url_cache, t_calls_left>>

\* the outcome of the GET is there after d tenths of a second
TResponse(t, kind, d) ==
    /\ UNCHANGED notTimedVars
    /\ t_call[t].pc = "wait"
    /\ d \in GetDurations(t_impl)
    /\ now' = now + d
    /\ t_call' = [t_call EXCEPT ![t] =
          [@ EXCEPT !.kind = kind, !.slept = 0, !.backoff = 0,
              !.pc = IF kind = "200"
                     THEN (IF t_impl = "farmaponte" THEN "reset" ELSE "return")
                     ELSE IF t_impl = "farmaponte" /\ Increments(kind) THEN "inc_read"
                     ELSE "backoff"]]
    /\ t_obs' = [t_obs EXCEPT !.failed = IF kind = "200" THEN 0 ELSE @ + 1]
    /\ UNCHANGED <<t_impl, t_threads, t_retries, delay_between_requests,
                   last_request_time, t_consecutive_errors, request_lock,
                   t_url_cache, t_calls_left>>

\* self.consecutive_errors = 0
TReset(t) ==
    /\ UNCHANGED notTimedVars
    /\ t_call[t].pc = "reset"
    /\ t_consecutive_errors' = 0
    /\ t_call' = [t_call EXCEPT ![t].pc = "store"]
    /\ UNCHANGED <<t_impl, t_threads, t_retries, delay_between_requests, now,
                   last_request_time, request_lock, t_url_cache, t_calls_left, t_obs>>

\* `with self.cache_lock: self.url_cache[url] = response`, `return response`
TStore(t) ==
    /\ UNCHANGED notTimedVars
    /\ t_call[t].pc = "store"
    /\ t_url_cache' = t_url_cache \cup {t_call[t].url}
    /\ t_call' = [t_call EXCEPT ![t] = Returns(t_call[t], "response")]
    /\ UNCHANGED <<t_impl, t_threads, t_retries, delay_between_requests, now,
                   last_request_time, t_consecutive_errors, request_lock,
                   t_calls_left, t_obs>>

\* `return r` / `return await response.text()`
TReturn(t) ==
    /\ UNCHANGED notTimedVars
    /\ t_call[t].pc = "return"
    /\ t_call' = [t_call EXCEPT ![t] = Returns(t_call[t], "response")]
    /\ UNCHANGED <<t_impl, t_threads, t_retries, delay_between_requests, now,
                   last_request_time, t_consecutive_errors, request_lock,
                   t_url_cache, t_calls_left, t_obs>>

\* `self.consecutive_errors += 1` reads the counter ...
TIncRead(t) ==
    /\ UNCHANGED notTimedVars
    /\ t_call[t].pc = "inc_read"
    /\ t_call' = [t_call EXCEPT ![t] =
          [@ EXCEPT !.pc = "inc_write", !.tmp = t_consecutive_errors]]
    /\ UNCHANGED <<t_impl, t_threads, t_retries, delay_between_requests, now,
                   last_request_time, t_consecutive_errors, request_lock,
                   t_url_cache, t_calls_left, t_obs>>

\* ... and writes it back
TIncWrite(t) ==
    /\ UNCHANGED notTimedVars
    /\ t_call[t].pc = "inc_write"
    /\ t_consecutive_errors' = t_call[t].tmp + 1
    /\ t_call' = [t_call EXCEPT ![t].pc = "backoff"]
    /\ UNCHANGED <<t_impl, t_threads, t_retries, delay_between_requests, now,
                   last_request_time, request_lock, t_url_cache, t_calls_left, t_obs>>

\* the sleep of the branch the attempt ended in (none when b = 0)
TBackoff(t, b) ==
    /\ UNCHANGED notTimedVars
    /\ t_call[t].pc = "backoff"
    /\ b \in Backoffs(t_impl, t_call[t].kind, t_call[t].i, t_retries)
    /\ t_call' = [t_call EXCEPT ![t] =
          [@ EXCEPT !.pc = "sleep_backoff", !.backoff = b, !.slept = b,
                    !.wake = now + b]]
    /\ UNCHANGED <<t_impl, t_threads, t_retries, delay_between_requests, now,
                   last_request_time, t_consecutive_errors, request_lock,
                   t_url_cache, t_calls_left, t_obs>>

\* the next round of the loop, or `return None` after the last one
TNextAttempt(t) ==
    /\ UNCHANGED notTimedVars
    /\ t_call[t].pc = "sleep_backoff"
    /\ now' = Max(now, t_call[t].wake)
    /\ t_call' = [t_call EXCEPT ![t] =
          IF t_call[t].i + 1 < t_retries
          THEN [@ EXCEPT !.pc = "attempt", !.i = @ + 1]
          ELSE [Returns(t_call[t], "none") EXCEPT !.i = t_call[t].i + 1]]
    /\ UNCHANGED <<t_impl, t_threads, t_retries, delay_between_requests,
                   last_request_time, t_consecutive_errors, request_lock,
                   t_url_cache, t_calls_left, t_obs>>

TimedNext ==
    \/ \E t \in Callers, u \in FetchUrls : TCall(t, u)
    \/ \E t \in Callers : TCacheCheck(t)
    \/ \E t \in Callers : TAttempt(t)
    \/ \E t \in Callers : TWake(t)
    \/ \E t \in Callers : TStart(t)
    \/ \E t \in Callers, kind \in TimedKinds, d \in AllDurations : TResponse(t, kind, d)
    \/ \E t \in Callers : TReset(t)
    \/ \E t \in Callers : TStore(t)
    \/ \E t \in Callers : TReturn(t)
    \/ \E t \in Callers : TIncRead(t)
    \/ \E t \in Callers : TIncWrite(t)
    \/ \E t \in Callers, b \in AllBackoffs : TBackoff(t, b)
    \/ \E t \in Callers : TNextAttempt(t)

DetailsNext ==
    \/ \E i \in 1..Len(product_urls) :
          \E outcome \in TaskOutcomes(product_urls[i]) :
             TaskCompletes(i, outcome)
    \/ GatherReturns
    \/ ProcessResult
    \/ DetailsReturn

SpecDetailsInit == DetailsInit /\ FetchIdle /\ ScrapeIdle /\ LinksIdle /\ CatalogIdle /\ ValidationIdle /\ MainIdle /\ PoolsIdle /\ PricesIdle /\ RunIdle /\ TimedIdle

SpecDetails == SpecDetailsInit /\ [][DetailsNext]_vars

SpecFetchInit == FetchInit /\ DetailsIdle /\ ScrapeIdle /\ LinksIdle /\ CatalogIdle /\ ValidationIdle /\ MainIdle /\ PoolsIdle /\ PricesIdle /\ RunIdle /\ TimedIdle

SpecFetch == SpecFetchInit /\ [][FetchNext]_vars

SpecScrapeInit == ScrapeInit /\ DetailsIdle /\ FetchIdle /\ LinksIdle /\ CatalogIdle /\ ValidationIdle /\ MainIdle /\ PoolsIdle /\ PricesIdle /\ RunIdle /\ TimedIdle

SpecScrape == SpecScrapeInit /\ [][ScrapeNext]_vars

SpecLinksInit == LinksInit /\ DetailsIdle /\ FetchIdle /\ ScrapeIdle /\ CatalogIdle /\ ValidationIdle /\ MainIdle /\ PoolsIdle /\ PricesIdle /\ RunIdle /\ TimedIdle

SpecLinks == SpecLinksInit /\ [][LinksNext]_vars

SpecCatalogInit == CatalogInit /\ DetailsIdle /\ FetchIdle /\ ScrapeIdle /\ LinksIdle /\ ValidationIdle /\ MainIdle /\ PoolsIdle /\ PricesIdle /\ RunIdle /\ TimedIdle

SpecCatalog == SpecCatalogInit /\ [][CatalogNext]_vars

SpecValidationInit == ValidationInit /\ DetailsIdle /\ FetchIdle
    /\ ScrapeIdle /\ LinksIdle /\ CatalogIdle /\ MainIdle /\ PoolsIdle /\ PricesIdle /\ RunIdle /\ TimedIdle

SpecValidation == SpecValidationInit /\ [][ValidationNext]_vars

SpecMainInit == MainInit /\ DetailsIdle /\ FetchIdle /\ ScrapeIdle
    /\ LinksIdle /\ CatalogIdle /\ ValidationIdle /\ PoolsIdle /\ PricesIdle /\ RunIdle /\ TimedIdle

SpecMain == SpecMainInit /\ [][MainNext]_vars

SpecPoolsInit == PoolsInit /\ DetailsIdle /\ FetchIdle /\ ScrapeIdle
    /\ LinksIdle /\ CatalogIdle /\ ValidationIdle /\ MainIdle /\ PricesIdle /\ RunIdle /\ TimedIdle

SpecPools == SpecPoolsInit /\ [][PoolsNext]_vars

SpecPricesInit == PricesInit /\ DetailsIdle /\ FetchIdle /\ ScrapeIdle
    /\ LinksIdle /\ CatalogIdle /\ ValidationIdle /\ MainIdle /\ PoolsIdle /\ RunIdle /\ TimedIdle

SpecPrices == SpecPricesInit /\ [][PricesNext]_vars

SpecRunInit == RunInit /\ DetailsIdle /\ FetchIdle /\ ScrapeIdle
    /\ LinksIdle /\ CatalogIdle /\ ValidationIdle /\ MainIdle /\ PoolsIdle
    /\ PricesIdle /\ TimedIdle

SpecRun == SpecRunInit /\ [][RunNext]_vars

SpecTimedInit == TimedInit /\ DetailsIdle /\ FetchIdle /\ ScrapeIdle
    /\ LinksIdle /\ CatalogIdle /\ ValidationIdle /\ MainIdle /\ PoolsIdle
    /\ PricesIdle /\ RunIdle

SpecTimed == SpecTimedInit /\ [][TimedNext]_vars

\* main() is sequential code: each of its steps ends, by returning or by
\* raising, so the next one is eventually taken
SpecMainLive == SpecMainInit /\ [][MainNext]_vars /\ WF_vars(MainNext)

Failed(outcome) == outcome.kind \in {"none", "exception"} \/ ~Truthy(outcome)

\* C1: scrape_product_details returns one record per requested URL, in the
\* order of the request whatever the completion order of the fetches:
\* position i is the sentinel (name FAILED_TO_FETCH, link L[i]) when the
\* fetch of L[i] gave no content or raised, and otherwise carries the name
\* of the page served for L[i].
C1_SameLengthSameOrder ==
    d_pc = "done" =>
        /\ Len(products_data) = Len(product_urls)
        /\ \A i \in 1..Len(product_urls) :
              /\ Failed(d_task[i]) => products_data[i] = Sentinel(product_urls[i])
              /\ ~Failed(d_task[i]) =>
                    /\ products_data[i].name = NameAt(product_urls[i])
                    /\ products_data[i].name # "FAILED_TO_FETCH"

\* three URLs, two distinct, fetched out of order, one failing in the middle
C1_Witness ==
    /\ d_pc = "done"
    /\ Len(product_urls) = 3
    /\ product_urls[1] # product_urls[3]
    /\ d_completion = <<3, 1, 2>>
    /\ d_task[2].kind = "exception"
    /\ d_task[3].kind = "none"
    /\ ~Failed(d_task[1])
    /\ Len(products_data) = 3

\* some step of caller t's current call
FetchStep(t) ==
    \/ FCacheCheck(t)
    \/ FAcquire(t)
    \/ FRateLimit(t)
    \/ \E out \in GetOutcomes : FGet(t, out)
    \/ FResetErrors(t)
    \/ FStore(t)
    \/ FIncRead(t)
    \/ FIncWrite(t)

\* C2: once a baixar_url(u) of the Farmaponte fetcher has returned a
\* status-200 response, every call baixar_url(u) started later returns that
\* same response and issues no network request.
C2_LaterCallsReturnFirstResponse ==
    f_impl = "farmaponte" =>
        \A t \in Callers :
            (f_call[t].pc = "done" /\ f_call[t].prior # NoResp) =>
                /\ f_call[t].result = f_call[t].prior
                /\ f_call[t].gets = 0

C4_NetworkFailureNeverRaises ==
    ~(s_pc = "raised" /\ s_error \in {NoneContentError, EmptyTableError})

\* C6: an exception in the processing of one product does not stop its
\* siblings: scrape() ends by returning, and what it returns holds the
\* record of every product whose processing succeeded.
C6_SiblingsSurvive ==
    (s_pc \in {"returned", "raised"} /\ s_error \notin {NoneContentError, EmptyTableError}) =>
        /\ s_pc = "returned"
        /\ \A p \in DOMAIN s_page : \A j \in 1..ProductsPerPage :
              s_page[p].prod[j] \in {"ok", "collected"} =>
                  <<p, j>> \in lista_de_produtos

LinksDone == l_k > Len(pages_html)

SumCard(sets) ==
    LET RECURSIVE Sum(_)
        Sum(n) == IF n = 0 THEN 0 ELSE Cardinality(sets[n]) + Sum(n - 1)
    IN Sum(Len(sets))

\* C7: every member of an extractor's result, and of the category's set,
\* is the href of an anchor of an extracted page resolved against the base
\* into an absolute URL; the category's set is the union of the per-page
\* results, so it holds no more members than there are distinct resolved
\* hrefs, however many methods or pages found them.
C7_ResolvedDeduplicatedLinks ==
    LET seen == UNION {pages_html[k] : k \in 1..Min(l_k, Len(pages_html))}
        resolved == {UrlJoin(BaseUrl, a.href) : a \in {x \in seen : x.href # ""}}
    IN /\ \A u \in product_links \cup all_product_links :
             HasScheme(u) /\ u \in resolved
       /\ all_product_links = UNION {l_returned[k] : k \in 1..Len(l_returned)}
       /\ Cardinality(all_product_links) <= Cardinality(resolved)

\* an extractor met the same product as a relative and as an absolute
\* href on the first page, where both methods take the relative one, and
\* again on the second page
C7_Witness ==
    /\ LinksDone
    /\ pages_html[1] = {Anchor("/dipirona-10ml/p", TRUE, TRUE),
                        Anchor("https://www.farmaponte.com.br/dipirona-10ml/p", FALSE, TRUE)}
    /\ pages_html[2] = {Anchor("/dipirona-10ml/p", TRUE, TRUE)}
    /\ all_product_links = {"https://www.farmaponte.com.br/dipirona-10ml/p"}
    /\ SumCard(l_returned) = 2

\* the pages of a category whose fetch succeeded
FetchedPages(category) ==
    {page_num \in DOMAIN c_task[category] : c_task[category][page_num] = "ok"}

FailedPages(category) ==
    {page_num \in DOMAIN c_task[category] : c_task[category][page_num] = "failed"}

\* C5: whichever page fetches of a category fail, no exception escapes and
\* the set returned for the category is exactly the union of the links
\* extracted from the pages that were fetched.
C5_UnionOfFetchedPages ==
    /\ c_pc # "raised"
    /\ \A category \in DOMAIN category_results :
          category_results[category] =
              UNION {ExtractLinks(c_impl, CategoryPage(category, page_num), BaseUrl) :
                        page_num \in FetchedPages(category)}

\* one of three page fetches failed, the other two pages held different
\* links, and the category was returned with links
C5_Witness ==
    /\ c_pc = "done"
    /\ "mamae-e-bebe" \in DOMAIN category_results
    /\ FailedPages("mamae-e-bebe") = {3}
    /\ FetchedPages("mamae-e-bebe") = {1, 2}
    /\ Cardinality(category_results["mamae-e-bebe"]) = 3

\* the page count and the product count the texts of a category page state
StatedPages(category) ==
    IF category = "mamae-e-bebe" THEN 3
    ELSE IF category = "medley" THEN 2
    ELSE 1

StatedProducts(category) ==
    IF category = "mamae-e-bebe" THEN 4
    ELSE IF category = "saude" THEN 2
    ELSE IF category = "beleza" THEN 1
    ELSE 0

\* C8: the page count of a fetched category page is the Y of its
\* "Página X de Y" text (40 for "Página 1 de 40") and 1 when it has no
\* such text, and a category without the text is scraped as one page.
C8_PageCountDiscovery ==
    /\ \A impl \in {"original", "enhanced"} :
          GetCategoryInfo(impl, TRUE, <<"Página 1 de 40">>).pages = 40
    /\ \A category \in DOMAIN c_info :
          c_info[category].fetched =>
              /\ c_info[category].pages = StatedPages(category)
              /\ c_pc = "done" /\ c_info[category].products > 0 =>
                    category \in DOMAIN category_results

\* C9: the expected count of a fetched category page is the N of its
\* "N resultados" or "N resultado" text, in both implementations.
C9_SingularAndPlural ==
    /\ \A impl \in {"original", "enhanced"} :
          GetCategoryInfo(impl, TRUE, <<"794 resultados">>).products = 794
    /\ \A category \in DOMAIN c_info :
          (c_info[category].fetched /\ StatedProducts(category) > 0) =>
              c_info[category].products = StatedProducts(category)

\* C10: a category whose page has no results text has expected count 0;
\* the enhanced scraper still scrapes it, returns its links and reports
\* an extraction rate of 0 for it.
C10_UnknownExpectation ==
    \A category \in DOMAIN c_info :
        (/\ c_impl = "enhanced"
         /\ c_pc = "done"
         /\ c_info[category].fetched
         /\ c_info[category].pages > 0
         /\ StatedProducts(category) = 0) =>
            /\ c_info[category].products = 0
            /\ category \in DOMAIN category_results
            /\ c_report[category].expected = 0
            /\ c_report[category].flagged

\* C11: with an expected count above 0, a category is flagged as low
\* exactly when 5 * actual < 4 * expected (650 of 794 is not flagged, 600 of
\* 794 is), and flagged or not, the links found are what is stored for it.
C11_FlaggedBelowEightyPercent ==
    v_flag # "" =>
        /\ v_stored = actual_products
        /\ expected_products > 0 =>
              (v_flag = "low" <=> 5 * actual_products < 4 * expected_products)
        /\ (expected_products = 794 /\ actual_products = 650) => v_flag = "good"
        /\ (expected_products = 794 /\ actual_products = 600) => v_flag = "low"

\* the category of the scenario, with 650 of the 794 products found
C11_Witness ==
    /\ v_pc = "validated"
    /\ expected_products = 794
    /\ actual_products = 650
    /\ v_flag = "good"
    /\ v_stored = 650

MainEnded == m_pc \in {"returned", "raised"}

C13_StopLambdaExactlyOnce ==
    /\ [](/\ m_lambda <= 1
          /\ m_lambda = 1 => (m_phase["bq"] # "" /\ m_phase["scraping"] # ""))
    /\ <>(m_lambda = 1 /\ MainEnded)

\* the fatal run: neither phase had data, main() raised, the Lambda was called
C13_Witness ==
    /\ m_pc = "raised"
    /\ m_exc = "ValueError"
    /\ m_phase["bq"] = "nodata"
    /\ m_phase["scraping"] = "nodata"
    /\ m_lambda = 1

\* C14: the error counter is read and written under mutual exclusion, so
\* no increment and no reset is lost: when a caller writes back the
\* incremented counter, the value it read is still the counter's value.
C14_NoLostCounterUpdate ==
    \A t \in Callers :
        f_call[t].pc = "inc_write" => f_call[t].tmp = consecutive_errors

Difference(unit_price, other) ==
    IF unit_price # None /\ other # None
    THEN {u - o : u \in unit_price, o \in other}
    ELSE None

\* C18: in every record returned, Desconto is the unit price minus the
\* discount price when both are present, a price of 0 included, and None
\* otherwise; Desconto_com_pix likewise with the pix price.
C18_DerivedDiscounts ==
    p_pc = "returned" =>
        /\ p_record.Desconto =
              Difference(p_record.Preco_unitario, p_record.Preco_com_desconto)
        /\ p_record.Desconto_com_pix =
              Difference(p_record.Preco_unitario, p_record.Preco_pix)

\* the page count a limited run asks for, per category
PagesAsked(category) == IF category = "mamae-e-bebe" THEN 2 ELSE 1

\* scraper.categorias of a limited run: scrape_all_categories() takes its
\* categories from the keys
Categorias ==
    [category \in {categories[n] : n \in DOMAIN categories} |-> PagesAsked(category)]

\* C17: with scraper.categorias set to category -> page count, the run of
\* scrape_all_categories() fetches pages of those categories only, and of
\* each category no page beyond the count given for it.
C17_LimitedToGivenPages ==
    c_impl = "original" =>
        /\ DOMAIN c_task \subseteq DOMAIN Categorias
        /\ \A category \in DOMAIN c_task :
              \A page_num \in DOMAIN c_task[category] :
                  page_num <= Categorias[category]

\* C16: once the operator's interrupt has ended a run, the links and the
\* records aggregated up to it are not lost: the links are in the links
\* file and the records in the data file (the run returns neither).
C16_InterruptKeepsAggregated ==
    run_pc = "interrupted" =>
        /\ run_links > 0 => links_file = run_links
        /\ run_products > 0 => data_file = run_products

\* serializable_data of save_category_links: each category of
\* category_results with list(links), the distinct URLs of its set
Manifest == [category \in DOMAIN category_results |-> category_results[category]]

\* C19: the link manifest written once scrape_all_categories() has returned
\* has one entry for every requested category, with the product URLs found
\* for that category.
C19_ManifestCoversRequested ==
    (c_impl = "original" /\ c_pc = "done") =>
        /\ DOMAIN Manifest = {categories[n] : n \in DOMAIN categories}
        /\ \A category \in DOMAIN Manifest :
              Manifest[category] = category_results[category]

\* the failure tags of the fetch contract
FailureTags == {"timeout", "rate-limited", "http-error", "network-error"}

\* what a caller can read from the value a fetch returned: a response (or
\* its text) is a success, None says nothing more
TagOf(result) == IF result.status = 200 THEN "ok" ELSE ""

\* caller t's call returns, and not a status-200 response
ReturnsFailure(t) ==
    /\ f_call[t].pc # "done"
    /\ f_call'[t].pc = "done"
    /\ f_call'[t].result.status # 200

\* C20: whenever a fetch returns after failing, the value it returns tells
\* the kind of the failure: timeout, rate-limited, http-error or
\* network-error.
C20_FailedFetchIsTagged ==
    [][\A t \in Callers :
          ReturnsFailure(t) => TagOf(f_call'[t].result) \in FailureTags]_vars

\* the cache entry of u is written in this step
CacheWritten(u) == url_cache'[u] # url_cache[u]

\* C25: the cache holds an entry for a URL only if a request for that URL
\* returned status 200 (the entry is that response); an entry is written
\* only by the caller that just received a 200 for that URL, never after a
\* failed attempt; and a URL once cached stays cached.
C25_CacheOnlyOnSuccess ==
    /\ [](\A u \in FetchUrls :
            url_cache[u] # NoResp =>
                url_cache[u].status = 200 /\ f_first200[u] # NoResp)
    /\ [][\A u \in FetchUrls :
            /\ url_cache[u] # NoResp => url_cache'[u] # NoResp
            /\ CacheWritten(u) =>
                  \E t \in Callers :
                      /\ f_call[t].pc = "store"
                      /\ f_call[t].url = u
                      /\ f_call[t].kind = "200"
                      /\ url_cache'[u].body = f_call[t].body]_vars

\* one URL is cached after a 200, and a call for the other URL has used up
\* its attempts and returned None, leaving that URL uncached
C25_Witness ==
    \E u, v \in FetchUrls, t \in Callers :
        /\ f_impl = "farmaponte"
        /\ u # v
        /\ url_cache[u].status = 200
        /\ url_cache[v] = NoResp
        /\ f_call[t].pc = "done"
        /\ f_call[t].url = v
        /\ f_call[t].gets = FarmaponteTentativas
        /\ f_call[t].result = NoResp

\* C26: when several workers call baixar_url concurrently for the same
\* uncached URL, only one of them makes a network request for it: no two
\* callers are each holding a 200 response of their own GET for one URL.
C26_OneRequestPerUrl ==
    f_impl = "farmaponte" =>
        \A t1, t2 \in Callers :
            (/\ t1 # t2
             /\ f_call[t1].url = f_call[t2].url
             /\ f_call[t1].pc \in {"reset", "store"})
            => f_call[t2].pc \notin {"reset", "store"}

\* C27: every record scrape_product_details returns, successful or
\* sentinel, has as its link the product URL requested at its position.
C27_LinkIsRequestedUrl ==
    d_pc = "done" =>
        \A i \in 1..Len(products_data) :
            i <= Len(product_urls) => products_data[i].link = product_urls[i]

\* C28: every link the original two-strategy extractor returns for a page
\* is among the links the enhanced four-strategy extractor returned for
\* that page.
C28_EnhancedKeepsOriginalLinks ==
    l_impl = "enhanced" =>
        \A k \in 1..Len(l_returned) :
            ExtractLinks("original", pages_html[k], BaseUrl) \subseteq l_returned[k]

\* C29: a local result file is deleted only after its upload succeeded:
\* when upload_file_to_s3 did not return True, the file of that phase is
\* still on disk and the phase is not reported as successful.
C29_DeleteOnlyAfterUpload ==
    \A phase \in {"bq", "scraping"} :
        (m_upload[phase] # "" /\ m_phase[phase] # "")
        => /\ Filename(phase) \notin m_local => m_upload[phase] = "True"
           /\ m_phase[phase] = "success" => m_upload[phase] = "True"

\* the max_pages scrape_category_pages was called with for a category
MaxPagesOf(category) ==
    IF c_impl = "enhanced" THEN discovered_categories[category].pages
    ELSE c_info[category].pages

\* the orders in which the fetches of a set of pages can complete
CompletionOrders(pages) ==
    {order \in [1..Cardinality(pages) -> pages] :
        \A m, n \in 1..Cardinality(pages) : m # n => order[m] # order[n]}

\* all_product_links after `for html in pages_html` when the pages
\* completed in the given order
LinksInOrder(impl, category, order) ==
    LET RECURSIVE Loop(_)
        Loop(n) == IF n = 0 THEN {}
                   ELSE Update(Loop(n - 1),
                               ExtractLinks(impl, CategoryPage(category, order[n]), BaseUrl))
    IN Loop(Len(order))

\* C30: scrape_category_pages(category, N) schedules one fetch for each
\* page number 1..N and for no other page, a fetch that has completed is
\* not scheduled again, and the set returned is the one every completion
\* order of the fetched pages gives.
C30_PagesOnceAnyOrder ==
    /\ [](\A category \in DOMAIN c_task :
             /\ DOMAIN c_task[category] = 1..MaxPagesOf(category)
             /\ category \in DOMAIN category_results =>
                   \A order \in CompletionOrders(FetchedPages(category)) :
                       LinksInOrder(c_impl, category, order) = category_results[category])
    /\ [][\A category \in DOMAIN c_task :
             /\ category \in DOMAIN c_task'
             /\ DOMAIN c_task'[category] = DOMAIN c_task[category]
             /\ \A page_num \in DOMAIN c_task[category] :
                   c_task[category][page_num] # "pending" =>
                       c_task'[category][page_num] = c_task[category][page_num]]_vars

\* the three pages of a category completed in the order 3, 1, 2, pages
\* 1 and 2 share a link, and the category was returned
C30_Witness ==
    /\ c_pc = "done"
    /\ "mamae-e-bebe" \in DOMAIN category_results
    /\ FetchedPages("mamae-e-bebe") = {1, 2, 3}
    /\ c_pages_html = <<CategoryPage("mamae-e-bebe", 3), CategoryPage("mamae-e-bebe", 1),
                        CategoryPage("mamae-e-bebe", 2)>>
    /\ category_results["mamae-e-bebe"] # {}

\* thread t is between the outcome of a GET and the statement that brings
\* the counter up to date with it
UpdatingCounter(t) == t_call[t].pc \in {"reset", "inc_read", "inc_write"}

\* thread t's call ends at the cache check
CacheHit(t) == t_call[t].pc = "cache_check" /\ t_call'[t].pc = "done"

\* C21: in a single-threaded sequence of baixar_url calls the
\* consecutive-error counter equals the number of failed attempts (429,
\* other non-200 status, timeout, network error) since the latest 200, and
\* a cache hit changes neither the counter nor the last-request watermark.
C21_CounterCountsFailures ==
    /\ []((t_impl = "farmaponte" /\ t_threads = 1) =>
             \A t \in 1..t_threads :
                 ~UpdatingCounter(t) => t_consecutive_errors = t_obs.failed)
    /\ [][(t_impl = "farmaponte" /\ t_threads = 1) =>
             \A t \in 1..t_threads : CacheHit(t) =>
                 /\ t_consecutive_errors' = t_consecutive_errors
                 /\ last_request_time' = last_request_time]_vars

\* a first call ended with a 200, which was cached, and both attempts of
\* the second call, for another URL, failed: the counter is 2
C21_Witness ==
    /\ t_impl = "farmaponte"
    /\ t_threads = 1
    /\ t_url_cache # {}
    /\ t_call[1].pc = "done"
    /\ t_call[1].result = "none"
    /\ t_call[1].url \notin t_url_cache
    /\ t_consecutive_errors = 2
    /\ t_obs.failed = 2

\* C22: after attempt i of a fetch by baixar_url or fetch_page got a 429,
\* the fetcher sleeps min(2^i, 10) seconds, never more than the cap of
\* 10 s whatever the attempt budget, and a fetch that gives up has made
\* as many attempts as its budget.
C22_BackoffWithinCap ==
    t_impl \in {"farmaponte", "fetch_page"} =>
        \A t \in 1..t_threads :
            /\ (t_call[t].pc = "sleep_backoff" /\ t_call[t].kind = "429") =>
                  /\ t_call[t].backoff = Min(Pow2(t_call[t].i) * 10, BackoffCap)
                  /\ t_call[t].backoff <= BackoffCap
            /\ (t_call[t].pc = "done" /\ t_call[t].result = "none") =>
                  t_call[t].i = t_retries

\* C23: when an attempt failed with a non-200 status other than 429, with
\* a timeout or with a network error, the next request is sent only after
\* a wait, and the backoff slept is shorter than the one a 429 at that
\* attempt is followed by.
C23_BackoffBeforeRetry ==
    \A t \in 1..t_threads :
        (/\ t_call[t].pc = "wait"
         /\ t_call[t].i > 0
         /\ t_call[t].kind \in {"500", "timeout", "neterror"})
        => /\ t_call[t].slept > 0
           /\ t_impl # "veracruz" =>
                 t_call[t].backoff < Backoff429(t_impl, t_call[t].i - 1)

\* C24: whatever the interleaving of the threads calling baixar_url, a
\* request starts at least the delay after the request before it, the
\* delay being the one its thread computed under request_lock: 0.1 s with
\* no consecutive error, min(0.5 + 0.2 * errors, 2.0) s otherwise, which
\* is between 0.1 s and 2.0 s and does not decrease with the errors.
C24_RequestsSpaced ==
    t_impl = "farmaponte" =>
        /\ t_obs.gap >= t_obs.delay
        /\ Delay(t_consecutive_errors) >= 1
        /\ Delay(t_consecutive_errors) <= MaxDelay
        /\ Delay(t_consecutive_errors) <= Delay(t_consecutive_errors + 1)

====
